---- MODULE Spec2Model ----
(***************************************************************************)
(* A model of turnish, the HTML-to-Markdown converter: the rule table      *)
(* (src/src/rules.ts), the node classifier and the string utilities        *)
(* (src/unnamed/part_000), the conversion engine (src/unnamed/part_001)    *)
(* and the built-in rules (src/src/default-rules.ts).                      *)
(*                                                                         *)
(* Strings are sequences of one-character strings; "\n" is the newline.    *)
(* A DOM element is a record of the fields the code reads.                 *)
(***************************************************************************)
EXTENDS Naturals, Integers, Sequences, FiniteSets, TLC

VARIABLES
    \* class Rules (rules.ts:24-58) and the node handed to forNode
    options, array, _keep, _remove, node, outcome, rule,
    \* Rules.isUnsupportedElement applied to one element
    element, unsupported,
    \* join applied to one pair of strings
    joinArgs, joined,
    \* Turnish.process: the fold over the child nodes of one parent
    parentNode, childNodes, index, output, seam,
    \* ExtendedNode applied to one node of a document
    dom, target, extended,
    \* the replacement of the fenced code block rule
    preNode, fenced,
    \* the replacement of the inline code rule
    content, inlineCode,
    \* the reference accumulator of the referenceLink rule of one instance,
    \* the renders of the instance that are running, the render that the
    \* last step started or ended, and the numbers of renders started and
    \* links converted
    references, urlReferenceIdMap, frames, rendered, calls, converted,
    \* the element children of the root of one document handed to render,
    \* and how that render ended
    document, result,
    \* Turnish.escape applied to one string
    escapeArg, escaped,
    \* what process emitted for each node of the document it has reached
    emitted,
    \* the classification fields the node objects of a document carry, the
    \* number of the render that walks it, and the renders that computed the
    \* fields the last step read
    nodeFields, renderNo, fieldReads,
    \* the lists of one chain of nested lists, the level whose list is converted
    \* next, and what process returned for the list converted last
    listChain, listLevel, listContent,
    \* the rule of the table that the loop of postProcess is at (0 when
    \* postProcess does not run), its output, and the rules whose append it
    \* has called
    postIndex, postOutput, appendLog,
    \* how the render of a document of element trees stands, the children of
    \* the root it has processed, and its output
    treeState, treeNodes, treeOutput,
    \* the output of process handed to postProcess, and what postProcess
    \* returned for it (in a sequence)
    processed, final,
    \* the node flankingWhitespace is applied to, and what it returned (in a
    \* sequence)
    flankNode, flanking

rulesVars == <<options, array, _keep, _remove, node, outcome, rule>>
unsupportedVars == <<element, unsupported>>
joinVars == <<joinArgs, joined>>
processVars == <<parentNode, childNodes, index, output, seam>>
classifierVars == <<dom, target, extended>>
fenceVars == <<preNode, fenced>>
codeVars == <<content, inlineCode>>
renderVars == <<references, urlReferenceIdMap, frames, rendered, calls, converted>>
documentVars == <<document, result>>
escapeVars == <<escapeArg, escaped>>
walkVars == <<emitted>>
fieldVars == <<nodeFields, renderNo, fieldReads>>
listsVars == <<listChain, listLevel, listContent>>
appendVars == <<postIndex, postOutput, appendLog>>
treeVars == <<treeState, treeNodes, treeOutput>>
trimVars == <<processed, final>>
flankingVars == <<flankNode, flanking>>
laterVars == <<renderVars, documentVars, escapeVars, walkVars, fieldVars, listsVars, appendVars, treeVars, trimVars, flankingVars>>
vars == <<rulesVars, unsupportedVars, joinVars, processVars, classifierVars,
          fenceVars, codeVars, laterVars>>

----------------------------------------------------------------------------
(* Bounds of the model *)

\* calls of addRule / keep / remove made on one instance
MaxCalls == 2

----------------------------------------------------------------------------
(* utilities (part_000) *)

Max(a, b) == IF a >= b THEN a ELSE b
Min(a, b) == IF a <= b THEN a ELSE b

\* the tag lists of utilities, restricted to nothing: they are the source's
blockElements ==
    {"ADDRESS", "ARTICLE", "ASIDE", "AUDIO", "BLOCKQUOTE", "BODY", "CANVAS",
     "CENTER", "DD", "DIR", "DIV", "DL", "DT", "FIELDSET", "FIGCAPTION", "FIGURE",
     "FOOTER", "FORM", "FRAMESET", "H1", "H2", "H3", "H4", "H5", "H6", "HEADER",
     "HGROUP", "HR", "HTML", "ISINDEX", "LI", "MAIN", "MENU", "NAV", "NOFRAMES",
     "NOSCRIPT", "OL", "OUTPUT", "P", "PRE", "SECTION", "TABLE", "TBODY", "TD",
     "TFOOT", "TH", "THEAD", "TR", "UL"}

voidElements ==
    {"AREA", "BASE", "BR", "COL", "COMMAND", "EMBED", "HR", "IMG", "INPUT",
     "KEYGEN", "LINK", "META", "PARAM", "SOURCE", "TRACK", "WBR"}

meaningfulWhenBlankElements ==
    {"A", "TABLE", "THEAD", "TBODY", "TFOOT", "TH", "TD", "IFRAME", "SCRIPT",
     "AUDIO", "VIDEO"}

standardMarkdownElements ==
    {"P", "BR", "H1", "H2", "H3", "H4", "H5", "H6", "BLOCKQUOTE",
     "UL", "OL", "LI", "PRE", "CODE", "HR", "A", "EM", "I", "STRONG",
     "B", "IMG", "DIV", "SPAN", "TABLE", "THEAD", "TBODY", "TR", "TH", "TD"}

\* String.prototype.toLowerCase on the tag names the model uses
ToLowerCase(s) ==
    CASE s = "P" -> "p"
      [] s = "DEL" -> "del"
      [] s = "INS" -> "ins"
      [] s = "A" -> "a"
      [] s = "PRE" -> "pre"
      [] s = "CODE" -> "code"
      [] s = "IMG" -> "img"
      [] s = "SPAN" -> "span"
      [] s = "EM" -> "em"
      [] s = "BR" -> "br"
      [] s = "H1" -> "h1"
      [] s = "H2" -> "h2"
      [] s = "H3" -> "h3"
      [] s = "H4" -> "h4"
      [] s = "H5" -> "h5"
      [] s = "H6" -> "h6"
      [] s = "BLOCKQUOTE" -> "blockquote"
      [] s = "UL" -> "ul"
      [] s = "OL" -> "ol"
      [] s = "LI" -> "li"
      [] s = "HR" -> "hr"
      [] s = "I" -> "i"
      [] s = "STRONG" -> "strong"
      [] s = "B" -> "b"
      [] s = "DIV" -> "div"
      [] s = "INPUT" -> "input"
      [] OTHER -> s

----------------------------------------------------------------------------
(* Elements as Rules reads them *)

\* node.firstChild === null
NoChild == [nodeName |-> "", attributes |-> {}]

\* An element: nodeName, the names of its attributes (HTML attribute names
\* are lower case; an attribute that is present has a non-empty value), the
\* nodeName of its parent, its first child, whether it has a previous or a
\* next sibling, and the isBlank flag ExtendedNode put on it.
Elem(name, attrs, parent, child, siblings, blank) ==
    [nodeName |-> name, attributes |-> attrs, parentName |-> parent,
     firstChild |-> child, hasSiblings |-> siblings, isBlank |-> blank]

NoNode == Elem("", {}, "", NoChild, FALSE, FALSE)

----------------------------------------------------------------------------
(* Rules.isUnsupportedElement (rules.ts:109-162) *)

\* switch case 'CODE' (rules.ts:142-152): a CODE under PRE decides on its
\* attribute names; any other CODE falls through to default.
UnsupportedCodeNoFallthrough(n) ==
    IF n.parentName = "PRE"
    THEN \E a \in n.attributes : a # "class"
    ELSE n.nodeName \notin standardMarkdownElements

UnsupportedCode(n) ==
    IF n.parentName = "PRE"
    THEN \E a \in n.attributes : a # "class"
    ELSE TRUE

isUnsupportedElement(n) ==
    IF /\ n.nodeName = "PRE"
       /\ n.firstChild # NoChild
       /\ n.firstChild.nodeName = "CODE"
       /\ \E a \in n.firstChild.attributes : a # "class"
    THEN TRUE
    ELSE IF n.attributes # {}
    THEN CASE n.nodeName = "IMG" ->
                \E a \in n.attributes : a \notin {"src", "alt", "title"}
           [] n.nodeName = "A" ->
                \E a \in n.attributes : a \notin {"href", "title"}
           [] n.nodeName = "CODE" -> UnsupportedCode(n)
           [] OTHER -> TRUE
    ELSE n.nodeName \notin standardMarkdownElements

----------------------------------------------------------------------------
(* Rules and filters (rules.ts:9-22) *)

\* A filter: a string, an array of strings, a function (named), or anything
\* else (a rule without filter: undefined).
StringFilter(s) == [type |-> "string", value |-> <<s>>]
ArrayFilter(a) == [type |-> "array", value |-> a]
FunctionFilter(f) == [type |-> "function", value |-> <<f>>]
UndefinedFilter == [type |-> "undefined", value |-> <<>>]

\* A rule object. origin and serial stand for the object's identity: which
\* list it was put in and the how-manieth of that list it was.
Rule(origin, serial, filter, replacement) ==
    [origin |-> origin, serial |-> serial, filter |-> filter,
     replacement |-> replacement]

NoRule == Rule("none", 0, UndefinedFilter, "")

\* Rules.constructor (rules.ts:39-48)
blankRule == Rule("blank", 0, UndefinedFilter, "blankReplacement")
defaultRule == Rule("default", 0, UndefinedFilter, "defaultReplacement")

\* the fresh rule objects forNode returns (rules.ts:85-92)
RetentionRule(replacement) == Rule("retention", 0, UndefinedFilter, replacement)

\* defaultRules, in the order their keys are set (default-rules.ts:9-313)
defaultRules ==
    << Rule("builtin", 1, StringFilter("p"), "paragraph"),
       Rule("builtin", 2, StringFilter("br"), "lineBreak"),
       Rule("builtin", 3, ArrayFilter(<<"h1", "h2", "h3", "h4", "h5", "h6">>), "heading"),
       Rule("builtin", 4, StringFilter("blockquote"), "blockquote"),
       Rule("builtin", 5, ArrayFilter(<<"ul", "ol">>), "list"),
       Rule("builtin", 6, StringFilter("li"), "listItem"),
       Rule("builtin", 7, FunctionFilter("indentedCodeBlock"), "indentedCodeBlock"),
       Rule("builtin", 8, FunctionFilter("fencedCodeBlock"), "fencedCodeBlock"),
       Rule("builtin", 9, StringFilter("hr"), "horizontalRule"),
       Rule("builtin", 10, FunctionFilter("inlineLink"), "inlineLink"),
       Rule("builtin", 11, FunctionFilter("referenceLink"), "referenceLink"),
       Rule("builtin", 12, ArrayFilter(<<"em", "i">>), "emphasis"),
       Rule("builtin", 13, ArrayFilter(<<"strong", "b">>), "strong"),
       Rule("builtin", 14, FunctionFilter("code"), "code"),
       Rule("builtin", 15, StringFilter("img"), "image") >>

\* The filter functions of the built-in rules
\* (default-rules.ts:102-110, 122-128, 163-169, 188-195, 286-291)
FilterFunction(f, n, opts) ==
    CASE f = "indentedCodeBlock" ->
            /\ opts.codeBlockStyle = "indented"
            /\ n.nodeName = "PRE"
            /\ n.firstChild # NoChild
            /\ n.firstChild.nodeName = "CODE"
      [] f = "fencedCodeBlock" ->
            /\ opts.codeBlockStyle = "fenced"
            /\ n.nodeName = "PRE"
      [] f = "inlineLink" ->
            /\ opts.linkStyle = "inlined"
            /\ n.nodeName = "A"
            /\ "href" \in n.attributes
      [] f = "referenceLink" ->
            /\ opts.linkStyle = "referenced"
            /\ n.nodeName = "A"
            /\ "href" \in n.attributes
      [] f = "code" ->
            /\ n.nodeName = "CODE"
            /\ ~(n.parentName = "PRE" /\ ~n.hasSiblings)
      [] OTHER -> FALSE

\* Array.prototype.indexOf(x) > -1
IndexOfFound(a, x) == \E i \in 1..Len(a) : a[i] = x

\* filterValue with a filter of an unknown type taken for one that does not
\* match
FilterValueUnknownIsFalse(r, n, opts) ==
    CASE r.filter.type = "string" ->
            IF r.filter.value[1] = ToLowerCase(n.nodeName) THEN "true" ELSE "false"
      [] r.filter.type = "array" ->
            IF IndexOfFound(r.filter.value, ToLowerCase(n.nodeName)) THEN "true" ELSE "false"
      [] r.filter.type = "function" ->
            IF FilterFunction(r.filter.value[1], n, opts) THEN "true" ELSE "false"
      [] OTHER -> "false"

\* filterValue (rules.ts:179-197): "true", "false", or "throw" for the
\* TypeError of a filter that is no string, array or function.
filterValue(r, n, opts) ==
    CASE r.filter.type = "string" ->
            IF r.filter.value[1] = ToLowerCase(n.nodeName) THEN "true" ELSE "false"
      [] r.filter.type = "array" ->
            IF IndexOfFound(r.filter.value, ToLowerCase(n.nodeName)) THEN "true" ELSE "false"
      [] r.filter.type = "function" ->
            IF FilterFunction(r.filter.value[1], n, opts) THEN "true" ELSE "false"
      [] OTHER -> "throw"

\* The results of findRule and forNode: a rule, undefined, or a TypeError
Returned(r) == [outcome |-> "returned", rule |-> r]
Undefined == [outcome |-> "undefined", rule |-> NoRule]
Threw == [outcome |-> "threw", rule |-> NoRule]

\* findRule (rules.ts:171-177), the loop from index i on
RECURSIVE findRuleFrom(_, _, _, _)
findRuleFrom(rules, i, n, opts) ==
    IF i > Len(rules) THEN Undefined
    ELSE LET v == filterValue(rules[i], n, opts)
         IN  IF v = "throw" THEN Threw
             ELSE IF v = "true" THEN Returned(rules[i])
             ELSE findRuleFrom(rules, i + 1, n, opts)

findRule(rules, n, opts) == findRuleFrom(rules, 1, n, opts)

\* the three searches of forNode (rules.ts:95-105)
SearchLists(arr, kp, rm, n, opts) ==
    LET r1 == findRule(arr, n, opts)
    IN  IF r1.outcome # "undefined" THEN r1
        ELSE LET r2 == findRule(kp, n, opts)
             IN  IF r2.outcome # "undefined" THEN r2
                 ELSE LET r3 == findRule(rm, n, opts)
                      IN  IF r3.outcome # "undefined" THEN r3
                          ELSE Returned(defaultRule)

\* forNode with the blank test after the retention tests
ForNodeBlankLate(arr, kp, rm, n, opts) ==
    IF opts.htmlRetentionMode = "preserveAll" /\ isUnsupportedElement(n)
    THEN Returned(RetentionRule("keepReplacement"))
    ELSE IF opts.htmlRetentionMode = "markdownIncludingHtml" /\ isUnsupportedElement(n)
    THEN Returned(RetentionRule("markdownIncludingHtmlReplacement"))
    ELSE IF n.isBlank THEN Returned(blankRule)
    ELSE SearchLists(arr, kp, rm, n, opts)

\* forNode with the retention tests after the search of the rule array
ForNodeRetentionLate(arr, kp, rm, n, opts) ==
    IF n.isBlank THEN Returned(blankRule)
    ELSE LET r1 == findRule(arr, n, opts)
         IN  IF r1.outcome # "undefined" THEN r1
             ELSE IF opts.htmlRetentionMode = "preserveAll" /\ isUnsupportedElement(n)
             THEN Returned(RetentionRule("keepReplacement"))
             ELSE IF opts.htmlRetentionMode = "markdownIncludingHtml" /\ isUnsupportedElement(n)
             THEN Returned(RetentionRule("markdownIncludingHtmlReplacement"))
             ELSE SearchLists(<<>>, kp, rm, n, opts)

\* forNode with the remove filters searched before the keep filters
ForNodeRemoveFirst(arr, kp, rm, n, opts) ==
    IF n.isBlank THEN Returned(blankRule)
    ELSE IF opts.htmlRetentionMode = "preserveAll" /\ isUnsupportedElement(n)
    THEN Returned(RetentionRule("keepReplacement"))
    ELSE IF opts.htmlRetentionMode = "markdownIncludingHtml" /\ isUnsupportedElement(n)
    THEN Returned(RetentionRule("markdownIncludingHtmlReplacement"))
    ELSE SearchLists(arr, rm, kp, n, opts)

\* Rules.forNode (rules.ts:80-106)
ForNode(arr, kp, rm, n, opts) ==
    IF n.isBlank THEN Returned(blankRule)
    ELSE IF opts.htmlRetentionMode = "preserveAll" /\ isUnsupportedElement(n)
    THEN Returned(RetentionRule("keepReplacement"))
    ELSE IF opts.htmlRetentionMode = "markdownIncludingHtml" /\ isUnsupportedElement(n)
    THEN Returned(RetentionRule("markdownIncludingHtmlReplacement"))
    ELSE SearchLists(arr, kp, rm, n, opts)

\* Array.prototype.push in place of unshift
Push(list, r) == Append(list, r)

\* Array.prototype.unshift (rules.ts:61, 65, 72)
Unshift(list, r) == <<r>> \o list

----------------------------------------------------------------------------
(* The inputs of the rule table *)

\* TurnishOptions (part_001:33-56), the options the rule table reads
Options ==
    [htmlRetentionMode : {"standard", "preserveAll", "markdownIncludingHtml"},
     codeBlockStyle : {"indented", "fenced"},
     linkStyle : {"inlined", "referenced"}]

\* filters given to addRule, keep and remove
AddedFilters == {StringFilter("p"), StringFilter("del"), UndefinedFilter}
KeepFilters == {ArrayFilter(<<"del", "ins">>), UndefinedFilter}
RemoveFilters == {ArrayFilter(<<"del", "ins">>), UndefinedFilter}

\* The elements handed to forNode. A void or meaningful-when-blank element
\* is never blank (part_000:35-43), and a blank element has no element child.
RuleNodes ==
    { Elem("P", a, "DIV", NoChild, FALSE, b) :
        a \in {{}, {"id"}}, b \in BOOLEAN }
    \cup
    { Elem("DEL", a, "P", NoChild, FALSE, b) :
        a \in {{}, {"id"}}, b \in BOOLEAN }
    \cup
    { Elem("A", a, "P", NoChild, FALSE, FALSE) :
        a \in {{}, {"href"}, {"href", "id"}} }
    \cup
    { Elem("PRE", a, "DIV", c, FALSE, FALSE) :
        a \in {{}, {"id"}},
        c \in {NoChild, [nodeName |-> "CODE", attributes |-> {}],
               [nodeName |-> "CODE", attributes |-> {"id"}]} }
    \cup
    { Elem("CODE", {}, p, NoChild, s, FALSE) :
        p \in {"PRE", "P"}, s \in BOOLEAN }
    \cup
    { Elem("CODE", {"class"}, "PRE", NoChild, FALSE, b) : b \in BOOLEAN }

----------------------------------------------------------------------------
(* The rule table as a state machine *)

\* The parts of the program a specification does not exercise stay as they
\* are before any call.
IdleRules ==
    /\ options = [htmlRetentionMode |-> "standard", codeBlockStyle |-> "fenced",
                  linkStyle |-> "inlined"]
    /\ array = <<>>
    /\ _keep = <<>>
    /\ _remove = <<>>
    /\ node = NoNode
    /\ outcome = "none"
    /\ rule = NoRule

IdleUnsupported ==
    /\ element = NoNode
    /\ unsupported = <<>>

IdleJoin ==
    /\ joinArgs = <<>>
    /\ joined = <<>>

IdleProcess ==
    /\ parentNode = <<>>
    /\ childNodes = <<>>
    /\ index = 0
    /\ output = <<>>
    /\ seam = <<>>

IdleClassifier ==
    /\ dom = <<>>
    /\ target = 0
    /\ extended = <<>>

IdleFence ==
    /\ preNode = <<>>
    /\ fenced = <<>>

IdleCode ==
    /\ content = <<>>
    /\ inlineCode = <<>>

IdleRender ==
    /\ references = <<>>
    /\ urlReferenceIdMap = <<>>
    /\ frames = <<>>
    /\ rendered = <<>>
    /\ calls = 0
    /\ converted = 0

IdleDocument ==
    /\ document = <<>>
    /\ result = "none"

IdleEscape ==
    /\ escapeArg = <<>>
    /\ escaped = <<>>

IdleWalk == emitted = <<>>

IdleFields ==
    /\ nodeFields = <<>>
    /\ renderNo = 0
    /\ fieldReads = {}

IdleLists ==
    /\ listChain = <<>>
    /\ listLevel = 0
    /\ listContent = <<>>

IdleAppend ==
    /\ postIndex = 0
    /\ postOutput = <<>>
    /\ appendLog = <<>>

IdleTree ==
    /\ treeState = "idle"
    /\ treeNodes = <<>>
    /\ treeOutput = <<>>

IdleTrim ==
    /\ processed = <<>>
    /\ final = <<>>

IdleFlanking ==
    /\ flankNode = <<>>
    /\ flanking = <<>>

IdleLater == IdleRender /\ IdleDocument /\ IdleEscape /\ IdleWalk /\ IdleFields /\ IdleLists /\ IdleAppend /\ IdleTree /\ IdleTrim /\ IdleFlanking

\* new Rules(options) (rules.ts:34-58)
InitRules ==
    /\ options \in Options
    /\ array = defaultRules
    /\ _keep = <<>>
    /\ _remove = <<>>
    /\ node = NoNode
    /\ outcome = "none"
    /\ rule = NoRule

Calls == (Len(array) - Len(defaultRules)) + Len(_keep) + Len(_remove)

\* Rules.add (rules.ts:60-62), called by addRule (part_001:165-168)
add ==
    /\ Calls < MaxCalls
    /\ \E f \in AddedFilters :
         array' = Unshift(array,
                    Rule("added", Len(array) - Len(defaultRules) + 1, f, "added"))
    /\ node' = NoNode /\ outcome' = "none" /\ rule' = NoRule
    /\ UNCHANGED <<options, _keep, _remove>>

\* Rules.keep (rules.ts:64-69)
keep ==
    /\ Calls < MaxCalls
    /\ \E f \in KeepFilters :
         _keep' = Unshift(_keep, Rule("keep", Len(_keep) + 1, f, "keepReplacement"))
    /\ node' = NoNode /\ outcome' = "none" /\ rule' = NoRule
    /\ UNCHANGED <<options, array, _remove>>

\* Rules.remove (rules.ts:71-78)
remove ==
    /\ Calls < MaxCalls
    /\ \E f \in RemoveFilters :
         _remove' = Unshift(_remove, Rule("remove", Len(_remove) + 1, f, "empty"))
    /\ node' = NoNode /\ outcome' = "none" /\ rule' = NoRule
    /\ UNCHANGED <<options, array, _keep>>

\* Rules.forNode (rules.ts:80-106) on one element
forNode ==
    /\ \E n \in RuleNodes :
         LET res == ForNode(array, _keep, _remove, n, options)
         IN  /\ node' = n
             /\ outcome' = res.outcome
             /\ rule' = res.rule
    /\ UNCHANGED <<options, array, _keep, _remove>>

Init ==
    /\ InitRules
    /\ IdleUnsupported /\ IdleJoin /\ IdleProcess /\ IdleClassifier
    /\ IdleFence /\ IdleCode
    /\ IdleLater

notRulesVars ==
    <<unsupportedVars, joinVars, processVars, classifierVars, fenceVars, codeVars, laterVars>>

Next ==
    \/ add /\ UNCHANGED notRulesVars
    \/ keep /\ UNCHANGED notRulesVars
    \/ remove /\ UNCHANGED notRulesVars
    \/ forNode /\ UNCHANGED notRulesVars

Spec == Init /\ [][Next]_vars

----------------------------------------------------------------------------
(* Rules.isUnsupportedElement on its own *)

\* the attribute names an element may carry
AttributeNames == {"class", "src", "alt", "title", "href", "id"}

\* node.firstChild: none, a text node, or a CODE element
FirstChildren ==
    {NoChild, [nodeName |-> "#text", attributes |-> {}]}
    \cup {[nodeName |-> "CODE", attributes |-> a] : a \in SUBSET {"class", "id"}}

\* The elements handed to isUnsupportedElement: standard tags with per-tag
\* allowances (IMG, A, CODE), standard tags without (PRE, SPAN), and a tag
\* outside the standard list (DEL).
UnsupportedNodes ==
    { Elem(t, a, p, c, FALSE, FALSE) :
        t \in {"IMG", "A", "CODE", "PRE", "SPAN", "DEL"},
        a \in SUBSET AttributeNames,
        p \in {"PRE", "P"},
        c \in FirstChildren }

\* an element the test is about to be applied to
InitUnsupported ==
    /\ element \in UnsupportedNodes
    /\ unsupported = <<>>

\* this.isUnsupportedElement(node) (rules.ts:84, 89)
checkUnsupported ==
    /\ unsupported = <<>>
    /\ unsupported' = <<isUnsupportedElement(element)>>
    /\ UNCHANGED element

InitSpecUnsupported ==
    /\ InitUnsupported
    /\ IdleRules /\ IdleJoin /\ IdleProcess /\ IdleClassifier
    /\ IdleFence /\ IdleCode
    /\ IdleLater

notUnsupportedVars ==
    <<rulesVars, joinVars, processVars, classifierVars, fenceVars, codeVars, laterVars>>

NextUnsupported == checkUnsupported /\ UNCHANGED notUnsupportedVars

SpecUnsupported == InitSpecUnsupported /\ [][NextUnsupported]_vars

----------------------------------------------------------------------------
(* Properties of rule resolution *)

\* the filter of rule r matches the element last handed to forNode
Matches(r) == filterValue(r, node, options) = "true"

\* some rule of the list matches that element
SomeMatch(list) == \E i \in 1..Len(list) : Matches(list[i])

\* r is the first rule of the list that matches that element
FirstMatch(list, r) ==
    \E i \in 1..Len(list) :
        /\ list[i] = r
        /\ Matches(r)
        /\ \A j \in 1..(i - 1) : ~Matches(list[j])

\* forNode returned a rule found by searching the lists
Searched == outcome = "returned" /\ ~node.isBlank /\ rule.origin # "retention"

\* C1: a blank node resolves to the blank rule, whatever rules and filters
\* are registered and whatever the retention mode is; resolution of a blank
\* node consults no filter, so it cannot fail either.
C1_BlankNodeGetsBlankRule ==
    (outcome # "none" /\ node.isBlank) => (outcome = "returned" /\ rule = blankRule)

\* a blank, unsupported element matched by an added rule was resolved under
\* a retention mode
C1_Witness ==
    /\ outcome = "returned"
    /\ node.isBlank
    /\ options.htmlRetentionMode # "standard"
    /\ isUnsupportedElement(node)
    /\ \E i \in 1..Len(array) : array[i].origin = "added" /\ Matches(array[i])
    /\ rule = blankRule

\* C2: for a non-blank element not taken by a retention rule, the rule
\* forNode returns is the first match of the rule array; if the array has no
\* match, the first match of the keep filters; if those have none either, the
\* first match of the remove filters; and the default rule only if nothing
\* matches.
C2_FixedSearchOrder ==
    Searched =>
        /\ rule.origin \in {"added", "builtin", "keep", "remove", "default"}
        /\ SomeMatch(array) => FirstMatch(array, rule)
        /\ (~SomeMatch(array) /\ SomeMatch(_keep)) => FirstMatch(_keep, rule)
        /\ (~SomeMatch(array) /\ ~SomeMatch(_keep) /\ SomeMatch(_remove))
              => FirstMatch(_remove, rule)
        /\ (~SomeMatch(array) /\ ~SomeMatch(_keep) /\ ~SomeMatch(_remove))
              => rule = defaultRule

\* an element matched by a keep filter and by a remove filter, and by no rule
\* of the array, resolved to the keep rule (whichever call came first: the
\* two lists do not record it)
C2_Witness ==
    /\ Searched
    /\ ~SomeMatch(array)
    /\ SomeMatch(_keep)
    /\ SomeMatch(_remove)
    /\ rule.origin = "keep"

\* C3: among the rules of the array that match a non-blank element not
\* taken by a retention rule, forNode returns the added rule that was added
\* last, and a built-in rule only if no added rule matches.
C3_LastAddedRuleWins ==
    Searched =>
        LET added == {i \in 1..Len(array) : array[i].origin = "added" /\ Matches(array[i])}
        IN  /\ added # {} =>
                /\ rule.origin = "added"
                /\ \A i \in added : array[i].serial <= rule.serial
            /\ rule.origin = "builtin" => added = {}

\* two added rules and a built-in rule match the element; the rule added
\* second was returned
C3_Witness ==
    /\ Searched
    /\ \E i, j \in 1..Len(array) :
          /\ array[i].origin = "added" /\ array[i].serial = 1 /\ Matches(array[i])
          /\ array[j].origin = "added" /\ array[j].serial = 2 /\ Matches(array[j])
    /\ \E i \in 1..Len(array) : array[i].origin = "builtin" /\ Matches(array[i])
    /\ rule.origin = "added"
    /\ rule.serial = 2

\* C4: under preserveAll (markdownIncludingHtml) a non-blank unsupported
\* element resolves to the retention rule with keepReplacement
\* (markdownIncludingHtmlReplacement) and no filter is tried; under standard,
\* or for a supported element, forNode never returns a retention rule.
C4_RetentionBeforeRules ==
    (outcome # "none" /\ ~node.isBlank) =>
        /\ (options.htmlRetentionMode = "preserveAll" /\ isUnsupportedElement(node))
              => (outcome = "returned" /\ rule = RetentionRule("keepReplacement"))
        /\ (options.htmlRetentionMode = "markdownIncludingHtml" /\ isUnsupportedElement(node))
              => (outcome = "returned"
                  /\ rule = RetentionRule("markdownIncludingHtmlReplacement"))
        /\ (options.htmlRetentionMode = "standard" \/ ~isUnsupportedElement(node))
              => rule.origin # "retention"

\* a non-blank unsupported element that an added rule and a built-in rule
\* match was resolved to the retention rule
C4_Witness ==
    /\ outcome = "returned"
    /\ ~node.isBlank
    /\ options.htmlRetentionMode = "markdownIncludingHtml"
    /\ isUnsupportedElement(node)
    /\ \E i \in 1..Len(array) : array[i].origin = "added" /\ Matches(array[i])
    /\ \E i \in 1..Len(array) : array[i].origin = "builtin" /\ Matches(array[i])
    /\ rule = RetentionRule("markdownIncludingHtmlReplacement")

----------------------------------------------------------------------------
(* Properties of the unsupported-element test *)

\* (a) a PRE whose first child is a CODE carrying an attribute other than class
UnsupportedPreCode(n) ==
    /\ n.nodeName = "PRE"
    /\ n.firstChild.nodeName = "CODE"
    /\ ~(n.firstChild.attributes \subseteq {"class"})

\* the three per-tag allowances
AllowedAttributes(n) ==
    \/ n.nodeName = "IMG" /\ n.attributes \subseteq {"src", "alt", "title"}
    \/ n.nodeName = "A" /\ n.attributes \subseteq {"href", "title"}
    \/ n.nodeName = "CODE" /\ n.parentName = "PRE" /\ n.attributes \subseteq {"class"}

\* C5: the unsupported-element test is true exactly when (a) the node is a
\* PRE whose first child is a CODE with an attribute other than class, or
\* (b) it carries an attribute and is covered by none of the allowances of
\* IMG, A and CODE under PRE, or (c) its tag is not a standard Markdown tag.
C5_UnsupportedExactly ==
    unsupported # <<>> =>
        (unsupported[1] <=>
            \/ UnsupportedPreCode(element)
            \/ Cardinality(element.attributes) >= 1 /\ ~AllowedAttributes(element)
            \/ element.nodeName \notin standardMarkdownElements)

\* a CODE that is not under PRE and carries only class was found unsupported
C5_Witness ==
    /\ unsupported = <<TRUE>>
    /\ element.nodeName = "CODE"
    /\ element.parentName # "PRE"
    /\ element.attributes = {"class"}

----------------------------------------------------------------------------
(* Strings and join (part_000:234-247, part_001:289-296) *)

\* the newline character
NL == "\n"

\* strings of at most n characters over an alphabet
Strings(alphabet, n) == UNION {[1..k -> alphabet] : k \in 0..n}

\* String.prototype.substring(from, to), with 0-based indices from <= to
Substring(s, from, to) == SubSeq(s, from + 1, Min(to, Len(s)))

\* trimLeadingNewlines (part_000:234-236): replace(/^\n*/, '')
RECURSIVE trimLeadingNewlines(_)
trimLeadingNewlines(s) ==
    IF s # <<>> /\ Head(s) = NL THEN trimLeadingNewlines(Tail(s)) ELSE s

\* the loop of trimTrailingNewlines (part_000:240-241)
RECURSIVE IndexEnd(_, _)
IndexEnd(s, indexEnd) ==
    IF indexEnd > 0 /\ s[indexEnd] = NL THEN IndexEnd(s, indexEnd - 1) ELSE indexEnd

\* trimTrailingNewlines (part_000:238-243)
trimTrailingNewlines(s) == Substring(s, 0, IndexEnd(s, Len(s)))

\* trimNewlines (part_000:245-247)
trimNewlines(s) == trimTrailingNewlines(trimLeadingNewlines(s))

\* join taking the smaller of the two newline counts
JoinMin(out, repl) ==
    LET s1 == trimTrailingNewlines(out)
        s2 == trimLeadingNewlines(repl)
        nls == Min(Len(out) - Len(s1), Len(repl) - Len(s2))
        separator == Substring(<<NL, NL>>, 0, nls)
    IN  s1 \o separator \o s2

\* join putting back every newline it counted, without the cap of two
JoinNoCap(out, repl) ==
    LET s1 == trimTrailingNewlines(out)
        s2 == trimLeadingNewlines(repl)
        nls == Max(Len(out) - Len(s1), Len(repl) - Len(s2))
    IN  s1 \o [i \in 1..nls |-> NL] \o s2

\* join (part_001:289-296)
join(out, repl) ==
    LET s1 == trimTrailingNewlines(out)
        s2 == trimLeadingNewlines(repl)
        nls == Max(Len(out) - Len(s1), Len(repl) - Len(s2))
        separator == Substring(<<NL, NL>>, 0, nls)
    IN  s1 \o separator \o s2

\* the longest string given to join as output or as replacement
MaxJoinLen == 3

\* the characters of those strings: the newline and two others
JoinAlphabet == {NL, "a", "b"}

\* a pair of arguments join is about to be applied to
InitJoin ==
    /\ joinArgs \in [output : Strings(JoinAlphabet, MaxJoinLen),
                      replacement : Strings(JoinAlphabet, MaxJoinLen)]
    /\ joined = <<>>

\* join(output, replacement) (part_001:232, 246); the result is kept as a
\* one-element sequence
callJoin ==
    /\ joined = <<>>
    /\ joined' = <<join(joinArgs.output, joinArgs.replacement)>>
    /\ UNCHANGED joinArgs

InitSpecJoin ==
    /\ InitJoin
    /\ IdleRules /\ IdleUnsupported /\ IdleProcess /\ IdleClassifier
    /\ IdleFence /\ IdleCode
    /\ IdleLater

notJoinVars ==
    <<rulesVars, unsupportedVars, processVars, classifierVars, fenceVars, codeVars, laterVars>>

NextJoin == callJoin /\ UNCHANGED notJoinVars

SpecJoin == InitSpecJoin /\ [][NextJoin]_vars

----------------------------------------------------------------------------
(* Properties of join *)

\* the number of newlines a string ends with
TrailingNewlines(s) ==
    CHOOSE t \in 0..Len(s) :
        /\ \A i \in (Len(s) - t + 1)..Len(s) : s[i] = NL
        /\ (t < Len(s) => s[Len(s) - t] # NL)

\* the number of newlines a string begins with
LeadingNewlines(s) ==
    CHOOSE t \in 0..Len(s) :
        /\ \A i \in 1..t : s[i] = NL
        /\ (t < Len(s) => s[t + 1] # NL)

\* k newlines
Newlines(k) == [i \in 1..k |-> NL]

\* C6: join(output, replacement) is output without its trailing newlines,
\* then k newlines, then replacement without its leading newlines, with
\* k = min(2, max(trailing newlines of output, leading newlines of
\* replacement)); no other character is added, dropped or moved.
C6_JoinSeam ==
    joined # <<>> =>
        LET out == joinArgs.output
            repl == joinArgs.replacement
            t == TrailingNewlines(out)
            l == LeadingNewlines(repl)
            k == IF t >= l THEN (IF t >= 2 THEN 2 ELSE t) ELSE (IF l >= 2 THEN 2 ELSE l)
        IN  joined[1] = SubSeq(out, 1, Len(out) - t) \o Newlines(k)
                          \o SubSeq(repl, l + 1, Len(repl))

\* output ends with one newline and replacement begins with three: two
\* newlines are put at the seam, the cap
C6_Witness ==
    /\ joined # <<>>
    /\ joinArgs.output = <<"a", "b", NL>>
    /\ joinArgs.replacement = <<NL, NL, NL>>
    /\ joined[1] = <<"a", "b", NL, NL>>

----------------------------------------------------------------------------
(* Characters and string helpers of the engine and of the built-in rules *)

TAB == "\t"
CR == "\r"
\* U+00A0, a whitespace character outside ASCII
NBSP == "nbsp"

\* the characters \s matches and String.prototype.trim removes
Whitespace == {" ", TAB, NL, CR, NBSP}

DigitChars == <<"0", "1", "2", "3", "4", "5", "6", "7", "8", "9">>
IsDigit(c) == \E d \in 1..10 : DigitChars[d] = c

\* String(n) for a natural number
RECURSIVE NumberToString(_)
NumberToString(n) ==
    IF n < 0 THEN <<"-">> \o NumberToString(0 - n)
    ELSE IF n < 10 THEN <<DigitChars[n + 1]>>
    ELSE NumberToString(n \div 10) \o <<DigitChars[(n % 10) + 1]>>

\* Number(s) for a string of decimal digits, with or without a minus sign
\* before them; Number('') is 0
RECURSIVE Number(_)
Number(s) ==
    IF s = <<>> THEN 0
    ELSE IF Head(s) = "-" THEN 0 - Number(Tail(s))
    ELSE 10 * Number(SubSeq(s, 1, Len(s) - 1))
            + (CHOOSE d \in 0..9 : DigitChars[d + 1] = s[Len(s)])

\* repeat (part_000:230-232) and String.prototype.repeat
repeat(character, count) == [i \in 1..count |-> character]

\* the concatenation of count copies of a string
RECURSIVE RepeatString(_, _)
RepeatString(s, count) ==
    IF count = 0 THEN <<>> ELSE s \o RepeatString(s, count - 1)

\* replace(/^\s+/, '')
RECURSIVE TrimStart(_)
TrimStart(s) ==
    IF s # <<>> /\ Head(s) \in Whitespace THEN TrimStart(Tail(s)) ELSE s

RECURSIVE TrimEnd(_)
TrimEnd(s) ==
    IF s # <<>> /\ s[Len(s)] \in Whitespace
    THEN TrimEnd(SubSeq(s, 1, Len(s) - 1))
    ELSE s

\* String.prototype.trim
Trim(s) == TrimEnd(TrimStart(s))

\* /\n$/.test(s)
EndsWithNewline(s) == s # <<>> /\ s[Len(s)] = NL

----------------------------------------------------------------------------
(* Turnish.escape (part_001:14-29, 201-205) *)

\* the backslash
BS == "\\"

\* the backtick (grave accent), which the syntax of TLA+ strings excludes
BACKTICK == "backtick"

\* s begins with the string p
StartsWith(s, p) == Len(s) >= Len(p) /\ SubSeq(s, 1, Len(p)) = p

\* the length of the run of character c (of characters of set C) s begins with
RECURSIVE LeadingRun(_, _)
LeadingRun(s, C) ==
    IF s # <<>> /\ Head(s) \in C THEN 1 + LeadingRun(Tail(s), C) ELSE 0

\* replace(/c/g, '\\c'): a backslash before every occurrence of c
RECURSIVE EscapeEvery(_, _)
EscapeEvery(s, c) ==
    IF s = <<>> THEN <<>>
    ELSE IF Head(s) = c THEN <<BS, c>> \o EscapeEvery(Tail(s), c)
    ELSE <<Head(s)>> \o EscapeEvery(Tail(s), c)

\* a backslash before the string, when it begins with p: the patterns are
\* anchored with ^ and carry the flag g but not m, so ^ is the start of the
\* string only
EscapeStart(s, p) == IF StartsWith(s, p) THEN <<BS>> \o s ELSE s

\* replace(/^(=+)/g, '\\$1')
EscapeEquals(s) == IF LeadingRun(s, {"="}) >= 1 THEN <<BS>> \o s ELSE s

\* replace(/^(#{1,6}) /g, '\\$1 ')
EscapeHashes(s) ==
    LET k == LeadingRun(s, {"#"})
    IN  IF k >= 1 /\ k <= 6 /\ Len(s) > k /\ s[k + 1] = " " THEN <<BS>> \o s ELSE s

\* the index of the first c in s at or after i, or 0
RECURSIVE IndexOfFrom(_, _, _)
IndexOfFrom(s, c, i) ==
    IF i > Len(s) THEN 0
    ELSE IF s[i] = c THEN i
    ELSE IndexOfFrom(s, c, i + 1)

\* replace(/<([^>]*)>/g, '\\<$1\\>')
RECURSIVE EscapeAngles(_)
EscapeAngles(s) ==
    LET i == IndexOfFrom(s, "<", 1)
        j == IF i = 0 THEN 0 ELSE IndexOfFrom(s, ">", i + 1)
    IN  IF i = 0 \/ j = 0 THEN s
        ELSE SubSeq(s, 1, i - 1) \o <<BS, "<">> \o SubSeq(s, i + 1, j - 1)
                \o <<BS, ">">> \o EscapeAngles(SubSeq(s, j + 1, Len(s)))

\* replace(/^(\d+)\. /g, '$1\\. ')
EscapeOrdinal(s) ==
    LET k == LeadingRun(s, {DigitChars[d] : d \in 1..10})
    IN  IF k >= 1 /\ Len(s) >= k + 2 /\ s[k + 1] = "." /\ s[k + 2] = " "
        THEN SubSeq(s, 1, k) \o <<BS>> \o SubSeq(s, k + 1, Len(s))
        ELSE s

\* the substitutions of escapes with the backslash substitution applied last
escapeBackslashLast(string) ==
    LET e2 == EscapeEvery(string, "*")
        e3 == EscapeEvery(e2, "_")
        e4 == EscapeStart(e3, <<"-">>)
        e5 == EscapeStart(e4, <<"+", " ">>)
        e6 == EscapeEquals(e5)
        e7 == EscapeHashes(e6)
        e8 == EscapeEvery(e7, BACKTICK)
        e9 == EscapeStart(e8, <<"~", "~", "~">>)
        e10 == EscapeEvery(e9, "[")
        e11 == EscapeEvery(e10, "]")
        e12 == EscapeAngles(e11)
        e13 == EscapeStart(e12, <<">">>)
    IN  EscapeEvery(EscapeOrdinal(e13), BS)

\* Turnish.escape: the substitutions of escapes, applied in their order
escape(string) ==
    LET e1 == EscapeEvery(string, BS)
        e2 == EscapeEvery(e1, "*")
        e3 == EscapeEvery(e2, "_")
        e4 == EscapeStart(e3, <<"-">>)
        e5 == EscapeStart(e4, <<"+", " ">>)
        e6 == EscapeEquals(e5)
        e7 == EscapeHashes(e6)
        e8 == EscapeEvery(e7, BACKTICK)
        e9 == EscapeStart(e8, <<"~", "~", "~">>)
        e10 == EscapeEvery(e9, "[")
        e11 == EscapeEvery(e10, "]")
        e12 == EscapeAngles(e11)
        e13 == EscapeStart(e12, <<">">>)
    IN  EscapeOrdinal(e13)

----------------------------------------------------------------------------
(* The built-in replacements the tree walk applies to block-level children *)

\* defaultOptions (part_001:58-75): the options of new Turnish()
defaultOptions ==
    [headingStyle |-> "atx",
     hr |-> <<"-", "-", "-">>,
     bulletListMarker |-> "-",
     listMarkerSpaceCount |-> 1,
     listItemIndent |-> "space",
     listItemIndentSpaceCount |-> 4,
     codeBlockStyle |-> "fenced",
     fence |-> <<BACKTICK, BACKTICK, BACKTICK>>,
     emDelimiter |-> "*",
     strongDelimiter |-> <<"*", "*">>,
     linkStyle |-> "inlined",
     linkReferenceStyle |-> "full",
     linkReferenceDeduplication |-> "full",
     br |-> <<" ", " ">>,
     preformattedCode |-> FALSE,
     htmlRetentionMode |-> "standard"]

\* isBlock (part_000:258-260)
isBlock(n) == n.nodeName \in blockElements

\* A child node of the parent being processed. For an element, content is
\* what this.process(node) returned for it, isBlank the flag of ExtendedNode,
\* onlyNestedList whether it has child nodes and each is blank text or a
\* UL/OL; for a text node, nodeValue is its text.
ElementChild(name, blank, cont, onlyList) ==
    [nodeType |-> 1, nodeName |-> name, nodeValue |-> <<>>, inputType |-> "",
     isBlank |-> blank, content |-> cont, onlyNestedList |-> onlyList]

TextChild(value) ==
    [nodeType |-> 3, nodeName |-> "#text", nodeValue |-> value, inputType |-> "",
     isBlank |-> (\A i \in 1..Len(value) : value[i] \in Whitespace),
     content |-> <<>>, onlyNestedList |-> FALSE]

\* the index of child i among parent.childNodes, text included
ChildNodeIndex(children, i) == i - 1

\* parent.children: the element children; the index of child i among them
\* (Array.prototype.indexOf.call(parent.children, node))
ElementIndex(children, i) ==
    Cardinality({j \in 1..(i - 1) : children[j].nodeType = 1})

\* parent.lastElementChild === node
IsLastElementChild(children, i) ==
    \A j \in (i + 1)..Len(children) : children[j].nodeType # 1

\* defaultRules.paragraph.replacement (default-rules.ts:11-13)
paragraphReplacement(cont) == <<NL, NL>> \o cont \o <<NL, NL>>

\* blankReplacement (part_001:76-78)
blankReplacement(n) == IF isBlock(n) THEN <<NL, NL>> ELSE <<>>

\* defaultReplacement (part_001:105-107)
defaultReplacement(cont, n) ==
    IF isBlock(n) THEN <<NL, NL>> \o cont \o <<NL, NL>> ELSE cont

\* defaultRules.list.replacement (default-rules.ts:48-55)
listReplacement(cont, parent, children, i) ==
    IF parent.nodeName = "LI" /\ IsLastElementChild(children, i)
    THEN <<NL>> \o cont
    ELSE <<NL, NL>> \o cont \o <<NL, NL>>

\* the lookahead of listMarkerRegex (default-rules.ts:95) at position i:
\* \s*(?:\d+\.\s|[-+*]\s)
ListMarkerAhead(s, i) ==
    LET rest == SubSeq(s, i, Len(s))
        t == SubSeq(rest, LeadingRun(rest, Whitespace) + 1, Len(rest))
        d == LeadingRun(t, {DigitChars[k] : k \in 1..10})
    IN  \/ /\ d >= 1
           /\ Len(t) >= d + 2
           /\ t[d + 1] = "."
           /\ t[d + 2] \in Whitespace
        \/ /\ Len(t) >= 2
           /\ t[1] \in {"-", "+", "*"}
           /\ t[2] \in Whitespace

\* content.replace(listMarkerRegex, '\n' + oneIndent), from position i on
RECURSIVE ReindentFrom(_, _, _)
ReindentFrom(s, i, oneIndent) ==
    IF i > Len(s) THEN <<>>
    ELSE IF s[i] = NL /\ ~ListMarkerAhead(s, i + 1)
    THEN <<NL>> \o oneIndent \o ReindentFrom(s, i + 1, oneIndent)
    ELSE <<s[i]>> \o ReindentFrom(s, i + 1, oneIndent)

\* the loop over the ancestors (default-rules.ts:81-91): chain holds the
\* nodeNames from the parent of the item upwards
RECURSIVE NestingLevel(_)
NestingLevel(chain) ==
    IF chain = <<>> THEN 0
    ELSE (IF /\ Head(chain) \in {"UL", "OL"}
             /\ Len(chain) >= 2
             /\ chain[2] = "LI"
          THEN 1 ELSE 0) + NestingLevel(Tail(chain))

\* defaultRules.listItem.replacement (default-rules.ts:60-98)
listItemReplacement(cont, n, parent, children, i, opts) ==
    LET spaces == repeat(" ", opts.listMarkerSpaceCount)
        idx == ElementIndex(children, i)
        prefix ==
            IF parent.nodeName = "OL"
            THEN NumberToString(IF parent.start # <<>> /\ parent.start[1] # <<>>
                                THEN Number(parent.start[1]) + idx ELSE idx + 1)
                   \o <<".">> \o spaces
            ELSE <<opts.bulletListMarker>> \o spaces
        isParagraph == EndsWithNewline(cont)
        cont1 == trimNewlines(cont) \o (IF isParagraph THEN <<NL>> ELSE <<>>)
        trailer == IF i < Len(children) THEN <<NL>> ELSE <<>>
        nestingLevel == NestingLevel(<<parent.nodeName>> \o parent.ancestors)
        oneIndent ==
            IF opts.listItemIndent = "tab" THEN <<TAB>>
            ELSE repeat(" ", opts.listItemIndentSpaceCount)
        indent == RepeatString(oneIndent, nestingLevel)
    IN  IF n.onlyNestedList /\ Trim(cont1) # <<>>
        THEN cont1 \o trailer
        ELSE indent \o prefix \o ReindentFrom(cont1, 1, oneIndent) \o trailer

\* rule.replacement(content, node, this.options) for the rule forNode chose
Replacement(r, cont, n, parent, children, i, opts) ==
    CASE r.replacement = "paragraph" -> paragraphReplacement(cont)
      [] r.replacement = "blankReplacement" -> blankReplacement(n)
      [] r.replacement = "defaultReplacement" -> defaultReplacement(cont, n)
      [] r.replacement = "list" -> listReplacement(cont, parent, children, i)
      [] r.replacement = "listItem" ->
            listItemReplacement(cont, n, parent, children, i, opts)

----------------------------------------------------------------------------
(* ExtendedNode (part_000:26-115) over a DOM tree *)

\* A DOM tree is a sequence of nodes; each names its parent by index (0 for
\* the children of the root), parents come before their children, and the
\* children of a node are in sequence order.
DomNode(type, name, value, parent) ==
    [nodeType |-> type, nodeName |-> name, nodeValue |-> value, parent |-> parent]

\* node.childNodes as indexes, in order
ChildIndexes(d, i) == {j \in 1..Len(d) : d[j].parent = i}

RECURSIVE IsAncestor(_, _, _)
IsAncestor(d, i, j) ==
    d[j].parent # 0 /\ (d[j].parent = i \/ IsAncestor(d, i, d[j].parent))

\* Element.getElementsByTagName(tagName): the descendant elements of that name
getElementsByTagName(d, i, tagName) ==
    {j \in 1..Len(d) :
        IsAncestor(d, i, j) /\ d[j].nodeType = 1 /\ d[j].nodeName = tagName}

\* Node.textContent: the value of a text or comment node; for an element,
\* the text of its children other than comments, concatenated in order
RECURSIVE TextContent(_, _)
RECURSIVE TextContentFrom(_, _, _)
TextContentFrom(d, i, j) ==
    IF j > Len(d) THEN <<>>
    ELSE (IF d[j].parent = i /\ d[j].nodeType # 8 THEN TextContent(d, j) ELSE <<>>)
            \o TextContentFrom(d, i, j + 1)

TextContent(d, i) ==
    IF d[i].nodeType = 1 THEN TextContentFrom(d, i, i + 1) ELSE d[i].nodeValue

\* is (part_000:294-296)
is(n, tagNames) == n.nodeName \in tagNames

\* has (part_000:298-307)
has(d, i, tagNames) ==
    \E tagName \in tagNames :
        IF d[i].nodeType # 1 THEN FALSE
        ELSE getElementsByTagName(d, i, tagName) # {}

isVoid(n) == is(n, voidElements)
hasVoid(d, i) == has(d, i, voidElements)
isMeaningfulWhenBlank(n) == is(n, meaningfulWhenBlankElements)
hasMeaningfulWhenBlank(d, i) == has(d, i, meaningfulWhenBlankElements)

\* /^\s*$/.test(s)
IsWhitespaceOnly(s) == \A k \in 1..Len(s) : s[k] \in Whitespace

\* isBlank that does not look at the descendants
IsBlankWithoutDescendants(d, i) ==
    /\ ~isVoid(d[i])
    /\ ~isMeaningfulWhenBlank(d[i])
    /\ IsWhitespaceOnly(TextContent(d, i))

\* isBlank (part_000:35-43)
isBlank(d, i) ==
    /\ ~isVoid(d[i])
    /\ ~isMeaningfulWhenBlank(d[i])
    /\ IsWhitespaceOnly(TextContent(d, i))
    /\ ~hasVoid(d, i)
    /\ ~hasMeaningfulWhenBlank(d, i)

\* [ \t\r\n]
AsciiWhitespace == {" ", TAB, CR, NL}

\* the number of characters of C that end s
RECURSIVE TrailingRun(_, _)
TrailingRun(s, C) ==
    IF s # <<>> /\ s[Len(s)] \in C
    THEN 1 + TrailingRun(SubSeq(s, 1, Len(s) - 1), C)
    ELSE 0

\* edgeWhitespace (part_000:67-89): the groups of the match of
\* /^(([ \t\r\n]*)(\s*))(?:(?=\S)[\s\S]*\S)?((\s*?)([ \t\r\n]*))$/
edgeWhitespace(string) ==
    LET n == Len(string)
        lead == LeadingRun(string, Whitespace)
        leadAscii == LeadingRun(string, AsciiWhitespace)
        trail == IF lead = n THEN 0 ELSE TrailingRun(string, Whitespace)
        trailAscii == IF lead = n THEN 0 ELSE TrailingRun(string, AsciiWhitespace)
    IN  [leading |-> SubSeq(string, 1, lead),
         leadingAscii |-> SubSeq(string, 1, leadAscii),
         leadingNonAscii |-> SubSeq(string, leadAscii + 1, lead),
         trailing |-> SubSeq(string, n - trail + 1, n),
         trailingNonAscii |-> SubSeq(string, n - trail + 1, n - trailAscii),
         trailingAscii |-> SubSeq(string, n - trailAscii + 1, n)]

\* node.previousSibling / node.nextSibling === null
NoSibling == [nodeType |-> 0, nodeName |-> "", nodeValue |-> <<>>, textContent |-> <<>>]

\* isFlankedByWhitespace without the test for a CODE sibling
isFlankedByAnyInline(side, n, opts) ==
    LET sibling == IF side = "left" THEN n.previousSibling ELSE n.nextSibling
        regExp(str) == IF side = "left"
                       THEN str # <<>> /\ str[Len(str)] = " "
                       ELSE str # <<>> /\ str[1] = " "
    IN  IF sibling = NoSibling THEN FALSE
        ELSE IF sibling.nodeType = 3 THEN regExp(sibling.nodeValue)
        ELSE IF sibling.nodeType = 1 /\ ~isBlock(sibling)
        THEN regExp(sibling.textContent)
        ELSE FALSE

\* isFlankedByWhitespace (part_000:91-115)
isFlankedByWhitespace(side, n, opts) ==
    LET sibling == IF side = "left" THEN n.previousSibling ELSE n.nextSibling
        regExp(str) == IF side = "left"
                       THEN str # <<>> /\ str[Len(str)] = " "
                       ELSE str # <<>> /\ str[1] = " "
    IN  IF sibling = NoSibling THEN FALSE
        ELSE IF sibling.nodeType = 3 THEN regExp(sibling.nodeValue)
        ELSE IF opts.preformattedCode /\ sibling.nodeName = "CODE" THEN FALSE
        ELSE IF sibling.nodeType = 1 /\ ~isBlock(sibling)
        THEN regExp(sibling.textContent)
        ELSE FALSE

\* flankingWhitespace (part_000:45-65) of a node given by its isBlock and
\* isCode flags, its textContent and its two siblings
flankingWhitespace(n, opts) ==
    IF n.isBlock \/ (opts.preformattedCode /\ n.isCode)
    THEN [leading |-> <<>>, trailing |-> <<>>]
    ELSE LET edges == edgeWhitespace(n.textContent)
         IN  [leading |->
                 IF edges.leadingAscii # <<>> /\ isFlankedByWhitespace("left", n, opts)
                 THEN edges.leadingNonAscii ELSE edges.leading,
              trailing |->
                 IF edges.trailingAscii # <<>> /\ isFlankedByWhitespace("right", n, opts)
                 THEN edges.trailingNonAscii ELSE edges.trailing]

----------------------------------------------------------------------------
(* Turnish.process (part_001:215-234) over the child nodes of one parent *)

\* the children a parent is given, at most
MaxChildren == 3

\* The parent whose children are processed: its nodeName, its start
\* attribute (<<>> when absent, else the string in a sequence: the empty
\* string is falsy in the test of listItem), the nodeNames of its ancestors
\* from its own parent upwards, and its isCode flag.
Parent(name, start, ancestors) ==
    [nodeName |-> name, start |-> start, ancestors |-> ancestors, isCode |-> FALSE]

ParentNodes ==
    { Parent("DIV", <<>>, <<"BODY">>),
      Parent("LI", <<>>, <<"UL", "BODY">>),
      Parent("UL", <<>>, <<"LI", "UL", "BODY">>),
      Parent("OL", <<<<"3">>>>, <<"BODY">>),
      Parent("OL", <<>>, <<"LI", "OL", "BODY">>),
      Parent("OL", <<<<"0">>>>, <<"LI", "UL", "LI", "OL", "BODY">>),
      Parent("OL", <<<<>>>>, <<"BODY">>) }

\* The children: text, paragraphs, DIVs (blank, or holding a paragraph, so
\* that their content already carries two newlines on each side), list items
\* (holding text, a paragraph, or only a nested list) and a list. The elements are block-level:
\* flankingWhitespace does not read their text or their siblings.
ChildNodes ==
    { TextChild(<<"a">>),
      TextChild(<<NL>>),
      ElementChild("P", FALSE, <<"a">>, FALSE),
      ElementChild("DIV", TRUE, <<>>, FALSE),
      ElementChild("DIV", FALSE, <<NL, NL, "a", NL, NL>>, FALSE),
      ElementChild("LI", FALSE, <<"a">>, FALSE),
      ElementChild("LI", FALSE, <<NL, NL, "a", NL, NL>>, FALSE),
      ElementChild("LI", FALSE, <<"-", " ", "a">>, TRUE),
      ElementChild("UL", FALSE, <<"-", " ", "a">>, TRUE) }

\* the element as Rules.forNode reads it
AsElem(child, parent, children) ==
    Elem(child.nodeName, {}, parent.nodeName, NoChild, Len(children) > 1,
         child.isBlank)

\* Turnish.replacementForNode (part_001:262-274); a TypeError of forNode
\* does not arise with the rules of the constructor
replacementForNode(child, parent, children, i, rules, opts) ==
    LET n == [isBlock |-> isBlock(child),
              isCode |-> child.nodeName = "CODE" \/ parent.isCode,
              textContent |-> <<>>,
              previousSibling |-> NoSibling, nextSibling |-> NoSibling]
        r == ForNode(rules.array, rules.keep, rules.remove,
                     AsElem(child, parent, children), opts).rule
        whitespace == flankingWhitespace(n, opts)
        cont == IF whitespace.leading # <<>> \/ whitespace.trailing # <<>>
                THEN Trim(child.content) ELSE child.content
    IN  whitespace.leading
          \o Replacement(r, cont, child, parent, children, i, opts)
          \o whitespace.trailing

\* the replacement of one child node (part_001:217-231)
ChildReplacement(child, parent, children, i, rules, opts) ==
    IF child.nodeType = 3
    THEN LET isCode == parent.isCode
             value ==
                IF /\ i > 1
                   /\ children[i - 1].nodeType = 1
                   /\ children[i - 1].nodeName = "INPUT"
                   /\ children[i - 1].inputType = "checkbox"
                THEN TrimStart(child.nodeValue)
                ELSE child.nodeValue
         IN  IF isCode THEN value ELSE escape(value)
    ELSE IF child.nodeType = 1
    THEN replacementForNode(child, parent, children, i, rules, opts)
    ELSE <<>>

\* the number of consecutive newlines of s from position i on
RECURSIVE NewlineRunAt(_, _)
NewlineRunAt(s, i) ==
    IF i <= Len(s) /\ s[i] = NL THEN 1 + NewlineRunAt(s, i + 1) ELSE 0

\* a block-level element
IsBlockElement(child) == child.nodeType = 1 /\ isBlock(child)

\* new Turnish() (part_001:114-117), and process called on a parent node
InitProcess ==
    /\ options = defaultOptions
    /\ array = defaultRules
    /\ _keep = <<>>
    /\ _remove = <<>>
    /\ node = NoNode
    /\ outcome = "none"
    /\ rule = NoRule
    /\ parentNode \in ParentNodes
    /\ childNodes \in UNION {[1..k -> ChildNodes] : k \in 1..MaxChildren}
    /\ index = 0
    /\ output = <<>>
    /\ seam = [adjacentBlocks |-> FALSE, newlines |-> 0,
               left |-> <<>>, right |-> <<>>]

\* One step of the reduce (part_001:216-233). seam observes the join: whether
\* it joined the results of two block-level elements, the results, and the
\* number of newlines the output holds where they meet.
processChild ==
    /\ index < Len(childNodes)
    /\ LET i == index + 1
           child == childNodes[i]
           replacement ==
              ChildReplacement(child, parentNode, childNodes, i,
                               [array |-> array, keep |-> _keep, remove |-> _remove],
                               options)
           out == join(output, replacement)
       IN  /\ output' = out
           /\ index' = i
           /\ seam' = [adjacentBlocks |->
                          /\ i > 1
                          /\ IsBlockElement(childNodes[i - 1])
                          /\ IsBlockElement(child),
                       newlines |->
                          NewlineRunAt(out, Len(trimTrailingNewlines(output)) + 1),
                       left |-> seam.right,
                       right |-> replacement]
    /\ UNCHANGED <<parentNode, childNodes>>

InitSpecProcess ==
    /\ InitProcess
    /\ IdleUnsupported /\ IdleJoin /\ IdleClassifier /\ IdleFence /\ IdleCode
    /\ IdleLater

notProcessVars ==
    <<rulesVars, unsupportedVars, joinVars, classifierVars, fenceVars, codeVars, laterVars>>

NextProcess == processChild /\ UNCHANGED notProcessVars

SpecProcess == InitSpecProcess /\ [][NextProcess]_vars

----------------------------------------------------------------------------
(* Properties of the join boundary between block-level results *)

\* C7 as stated: wherever the results of two adjacent block-level elements
\* are joined, the boundary holds exactly two newlines.
C7_ExactlyTwoNewlines ==
    seam.adjacentBlocks => seam.newlines = 2

\* C7, amended: the boundary between two adjacent block-level results never
\* holds more than two newlines, however many each side produced, and holds
\* exactly two whenever one of the sides produced two or more.
C7_AtMostTwoNewlines ==
    seam.adjacentBlocks =>
        /\ seam.newlines <= 2
        /\ (TrailingNewlines(seam.left) >= 2 \/ LeadingNewlines(seam.right) >= 2)
              => seam.newlines = 2

\* two adjacent DIVs that each hold a paragraph: four newlines on each side
\* of the boundary, two in the output
C7_Witness ==
    /\ seam.adjacentBlocks
    /\ TrailingNewlines(seam.left) = 4
    /\ LeadingNewlines(seam.right) = 4
    /\ seam.newlines = 2

----------------------------------------------------------------------------
(* ExtendedNode applied to the nodes of a tree, in document order *)

\* the nodes of a tree, at most
MaxNodes == 3

\* the nodes: inline, block-level, void, meaningful-when-blank and code
\* elements, and text
NodeKinds ==
    { <<1, "SPAN", <<>>>>, <<1, "P", <<>>>>, <<1, "BR", <<>>>>,
      <<1, "A", <<>>>>, <<1, "CODE", <<>>>>,
      <<3, "#text", <<" ">>>>, <<3, "#text", <<"a">>>> }

\* the parent of node i is the root, the node before it, or an ancestor of
\* the node before it (document order), and it is an element
IsDocumentOrder(d) ==
    \A i \in 1..Len(d) :
        \/ d[i].parent = 0
        \/ /\ i > 1
           /\ d[i].parent \in 1..(i - 1)
           /\ d[d[i].parent].nodeType = 1
           /\ (d[i].parent = i - 1 \/ IsAncestor(d, d[i].parent, i - 1))

Trees ==
    {d \in UNION {[1..n -> {DomNode(k[1], k[2], k[3], q) :
                                k \in NodeKinds, q \in 0..(MaxNodes - 1)}] :
                     n \in 1..MaxNodes} :
        IsDocumentOrder(d)}

\* node.previousSibling and node.nextSibling, as isFlankedByWhitespace reads them
SiblingView(d, S) ==
    IF S = {} THEN NoSibling
    ELSE LET j == CHOOSE x \in S : TRUE
         IN  [nodeType |-> d[j].nodeType, nodeName |-> d[j].nodeName,
              nodeValue |-> d[j].nodeValue, textContent |-> TextContent(d, j)]

previousSibling(d, i) ==
    SiblingView(d, {j \in 1..(i - 1) :
                      /\ d[j].parent = d[i].parent
                      /\ \A k \in (j + 1)..(i - 1) : d[k].parent # d[i].parent})

nextSibling(d, i) ==
    SiblingView(d, {j \in (i + 1)..Len(d) :
                      /\ d[j].parent = d[i].parent
                      /\ \A k \in (i + 1)..(j - 1) : d[k].parent # d[i].parent})

\* a tree handed to process, under either setting of preformattedCode
InitClassifier ==
    /\ options \in {[defaultOptions EXCEPT !.preformattedCode = b] : b \in BOOLEAN}
    /\ dom \in Trees
    /\ target = 0
    /\ extended = <<>>

\* The four values ExtendedNode (part_000:28-31) computes for node i, given
\* the isCode its parent node carries
Classification(d, i, parentIsCode, opts) ==
    LET n == d[i]
        block == isBlock(n)
        code == n.nodeName = "CODE" \/ parentIsCode
    IN  [isBlock |-> block,
         isCode |-> code,
         isBlank |-> isBlank(d, i),
         flankingWhitespace |->
            flankingWhitespace(
               [isBlock |-> block, isCode |-> code,
                textContent |-> TextContent(d, i),
                previousSibling |-> previousSibling(d, i),
                nextSibling |-> nextSibling(d, i)],
               opts)]

\* ExtendedNode (part_000:26-33) on the next node in document order, the
\* order in which process reaches the nodes (part_001:216-217, 264)
ExtendedNode ==
    /\ target < Len(dom)
    /\ LET i == target + 1
           n == dom[i]
       IN  /\ extended' =
                Append(extended,
                       Classification(dom, i,
                                      n.parent # 0 /\ extended[n.parent].isCode,
                                      options))
           /\ target' = i
    /\ UNCHANGED <<dom, options>>

InitSpecClassifier ==
    /\ InitClassifier
    /\ array = <<>> /\ _keep = <<>> /\ _remove = <<>>
    /\ node = NoNode /\ outcome = "none" /\ rule = NoRule
    /\ IdleUnsupported /\ IdleJoin /\ IdleProcess /\ IdleFence /\ IdleCode
    /\ IdleLater

notClassifierVars ==
    <<array, _keep, _remove, node, outcome, rule,
      unsupportedVars, joinVars, processVars, fenceVars, codeVars, laterVars>>

NextClassifier == ExtendedNode /\ UNCHANGED notClassifierVars

SpecClassifier == InitSpecClassifier /\ [][NextClassifier]_vars

----------------------------------------------------------------------------
(* Properties of the classification *)

\* node j is an element below node i
IsDescendantElement(d, i, j) == d[j].nodeType = 1 /\ IsAncestor(d, i, j)

\* C8: the isBlank flag of a node is true if and only if the node is not a
\* void element, is not a meaningful-when-blank element, its text content
\* is empty once trimmed, and no descendant is a void or a
\* meaningful-when-blank element (a node that is no element has no such
\* descendant).
C8_BlankExactly ==
    \A i \in 1..Len(extended) :
        extended[i].isBlank <=>
            /\ dom[i].nodeName \notin voidElements
            /\ dom[i].nodeName \notin meaningfulWhenBlankElements
            /\ Trim(TextContent(dom, i)) = <<>>
            /\ ~(/\ dom[i].nodeType = 1
                 /\ \E j \in 1..Len(dom) :
                       /\ IsDescendantElement(dom, i, j)
                       /\ dom[j].nodeName \in voidElements)
            /\ ~(/\ dom[i].nodeType = 1
                 /\ \E j \in 1..Len(dom) :
                       /\ IsDescendantElement(dom, i, j)
                       /\ dom[j].nodeName \in meaningfulWhenBlankElements)

\* an element without text whose flag is false on account of a void
\* descendant two levels down, next to one whose flag is true
C8_Witness ==
    /\ Len(extended) = 3
    /\ dom[1].nodeName = "SPAN" /\ dom[2].nodeName = "SPAN" /\ dom[3].nodeName = "BR"
    /\ dom[2].parent = 1 /\ dom[3].parent = 2
    /\ ~extended[1].isBlank
    /\ ~extended[2].isBlank

----------------------------------------------------------------------------
(* defaultRules.fencedCodeBlock.replacement (default-rules.ts:129-152) *)

\* the lines of a code block, at most
MaxLines == 3

\* the length of the run of character c that s holds from position i on
RECURSIVE RunAt(_, _, _)
RunAt(s, i, c) ==
    IF i <= Len(s) /\ s[i] = c THEN 1 + RunAt(s, i + 1, c) ELSE 0

\* where ^ matches under flag m: at the start, and after a line terminator
LineTerminators == {NL, CR}
AtLineStart(s, i) == i = 1 \/ s[i - 1] \in LineTerminators

\* the body of the loop with > in place of >=
NextFenceSizeStrict(length, fenceSize) ==
    IF length > fenceSize THEN length + 1 ELSE fenceSize

\* the body of the loop (default-rules.ts:142-144)
NextFenceSize(length, fenceSize) ==
    IF length >= fenceSize THEN length + 1 ELSE fenceSize

\* the loop over fenceInCodeRegex.exec(code) (default-rules.ts:138-145),
\* from lastIndex i - 1 on: a match is a whole run of three or more fence
\* characters at a line start, and the search goes on behind it
RECURSIVE FenceSizeLoop(_, _, _, _)
FenceSizeLoop(code, i, fenceChar, fenceSize) ==
    IF i > Len(code) THEN fenceSize
    ELSE LET length == RunAt(code, i, fenceChar)
         IN  IF AtLineStart(code, i) /\ length >= 3
             THEN FenceSizeLoop(code, i + length, fenceChar,
                                NextFenceSize(length, fenceSize))
             ELSE FenceSizeLoop(code, i + 1, fenceChar, fenceSize)

\* the length of the run of non-whitespace characters s begins with
RECURSIVE NonWhitespaceRun(_)
NonWhitespaceRun(s) ==
    IF s # <<>> /\ Head(s) \notin Whitespace
    THEN 1 + NonWhitespaceRun(Tail(s)) ELSE 0

\* (className.match(/(?:lang|language)-(\S+)/) || [null, ''])[1], the
\* search from position i on
RECURSIVE LanguageFrom(_, _)
LanguageFrom(className, i) ==
    IF i > Len(className) THEN <<>>
    ELSE LET rest == SubSeq(className, i, Len(className))
             short == <<"l", "a", "n", "g", "-">>
             long == <<"l", "a", "n", "g", "u", "a", "g", "e", "-">>
             afterShort == SubSeq(rest, Len(short) + 1, Len(rest))
             afterLong == SubSeq(rest, Len(long) + 1, Len(rest))
         IN  IF StartsWith(rest, short) /\ NonWhitespaceRun(afterShort) > 0
             THEN SubSeq(afterShort, 1, NonWhitespaceRun(afterShort))
             ELSE IF StartsWith(rest, long) /\ NonWhitespaceRun(afterLong) > 0
             THEN SubSeq(afterLong, 1, NonWhitespaceRun(afterLong))
             ELSE LanguageFrom(className, i + 1)

\* code.replace(/\n$/, '')
StripFinalNewline(s) ==
    IF EndsWithNewline(s) THEN SubSeq(s, 1, Len(s) - 1) ELSE s

\* options.fence?.charAt(0) || the backtick
FenceChar(opts) == IF opts.fence = <<>> THEN BACKTICK ELSE opts.fence[1]

\* The replacement, for codeElem (the first child of the PRE when that is a
\* CODE, the PRE otherwise) given by its class attribute and its textContent
fencedCodeBlockReplacement(codeElem, opts) ==
    LET language == LanguageFrom(codeElem.className, 1)
        code == codeElem.textContent
        fenceChar == FenceChar(opts)
        fenceSize == FenceSizeLoop(code, 1, fenceChar, 3)
        fence == repeat(fenceChar, fenceSize)
    IN  <<NL, NL>> \o fence \o language \o <<NL>>
          \o StripFinalNewline(code)
          \o <<NL>> \o fence \o <<NL, NL>>

\* lines of code: empty, text, runs of two to five backticks, runs of three
\* and four tildes, and a run of three backticks behind text and behind a
\* carriage return
CodeLines ==
    { <<>>, <<"a">>,
      repeat(BACKTICK, 2), repeat(BACKTICK, 3), repeat(BACKTICK, 4),
      repeat(BACKTICK, 5), repeat("~", 3), repeat("~", 4),
      <<"a">> \o repeat(BACKTICK, 3),
      <<"a", CR>> \o repeat(BACKTICK, 3) }

\* Array.prototype.join('\n')
RECURSIVE JoinLines(_)
JoinLines(lines) ==
    IF Len(lines) = 0 THEN <<>>
    ELSE IF Len(lines) = 1 THEN lines[1]
    ELSE lines[1] \o <<NL>> \o JoinLines(Tail(lines))

ClassNames ==
    { <<>>, <<"l", "a", "n", "g", "u", "a", "g", "e", "-", "j", "s">>, <<"x", " ", "l", "a", "n", "g", "-", "c", " ", "y">> }

InitFence ==
    /\ options \in {[defaultOptions EXCEPT !.fence = f] :
                        f \in {repeat(BACKTICK, 3), repeat("~", 3)}}
    /\ preNode \in {[className |-> c, textContent |-> JoinLines(lines)] :
                        c \in ClassNames,
                        lines \in UNION {[1..n -> CodeLines] : n \in 1..MaxLines}}
    /\ fenced = <<>>

\* the rule applied to the PRE
fencedCodeBlock ==
    /\ fenced = <<>>
    /\ fenced' = <<fencedCodeBlockReplacement(preNode, options)>>
    /\ UNCHANGED <<preNode, options>>

InitSpecFence ==
    /\ InitFence
    /\ array = <<>> /\ _keep = <<>> /\ _remove = <<>>
    /\ node = NoNode /\ outcome = "none" /\ rule = NoRule
    /\ IdleUnsupported /\ IdleJoin /\ IdleProcess /\ IdleClassifier /\ IdleCode
    /\ IdleLater

notFenceVars ==
    <<array, _keep, _remove, node, outcome, rule,
      unsupportedVars, joinVars, processVars, classifierVars, codeVars, laterVars>>

NextFence == fencedCodeBlock /\ UNCHANGED notFenceVars

SpecFence == InitSpecFence /\ [][NextFence]_vars

----------------------------------------------------------------------------
(* Properties of the fenced code block *)

\* the longest run of character c that starts a line of s (0 when none does)
LongestLineStartRun(s, c) ==
    LET runs == {RunAt(s, i, c) : i \in {j \in 1..Len(s) : AtLineStart(s, j)}}
    IN  IF runs = {} THEN 0 ELSE CHOOSE r \in runs : \A q \in runs : q <= r

\* C9: the block opens and closes with the same fence, of max(3, 1 + L)
\* fence characters, L being the longest run of the fence character that
\* starts a line of the code; and no line of the code as emitted begins
\* with a run of the fence character as long as the fence.
C9_FenceOutgrowsCode ==
    fenced # <<>> =>
        LET c == options.fence[1]
            L == LongestLineStartRun(preNode.textContent, c)
            size == Max(3, 1 + L)
            fence == [i \in 1..size |-> c]
            body == StripFinalNewline(preNode.textContent)
        IN  /\ fenced[1] =
                  <<NL, NL>> \o fence \o LanguageFrom(preNode.className, 1)
                    \o <<NL>> \o body \o <<NL>> \o fence \o <<NL, NL>>
            /\ \A i \in 1..Len(body) :
                  AtLineStart(body, i) => RunAt(body, i, c) < size

\* code whose lines are a run of four backticks and a run of three, fenced
\* with five backticks
C9_Witness ==
    /\ fenced # <<>>
    /\ options.fence[1] = BACKTICK
    /\ preNode.textContent = repeat(BACKTICK, 4) \o <<NL>> \o repeat(BACKTICK, 3)
    /\ SubSeq(fenced[1], 1, 8) = <<NL, NL>> \o repeat(BACKTICK, 5) \o <<NL>>

----------------------------------------------------------------------------
(* defaultRules.code.replacement (default-rules.ts:292-299) *)

\* the pieces the content of an inline code element is made of, at most
MaxPieces == 3

\* content.replace(/\r?\n|\r/g, ' ')
RECURSIVE ReplaceLineBreaks(_)
ReplaceLineBreaks(s) ==
    IF s = <<>> THEN <<>>
    ELSE IF Len(s) >= 2 /\ s[1] = CR /\ s[2] = NL
    THEN <<" ">> \o ReplaceLineBreaks(SubSeq(s, 3, Len(s)))
    ELSE IF s[1] \in {NL, CR}
    THEN <<" ">> \o ReplaceLineBreaks(Tail(s))
    ELSE <<s[1]>> \o ReplaceLineBreaks(Tail(s))

\* trimmed.match(/BACKTICK+/gm) || []: the maximal runs of backticks of s
\* from position i on, in order
RECURSIVE BacktickRuns(_, _)
BacktickRuns(s, i) ==
    IF i > Len(s) THEN <<>>
    ELSE LET length == RunAt(s, i, BACKTICK)
         IN  IF length > 0
             THEN <<repeat(BACKTICK, length)>> \o BacktickRuns(s, i + length)
             ELSE BacktickRuns(s, i + 1)

\* Array.prototype.includes
Includes(a, x) == \E i \in 1..Len(a) : a[i] = x

\* /^BACKTICK|^ .*?[^ ].* $|BACKTICK$/.test(trimmed), for a string without
\* line breaks
NeedsExtraSpace(trimmed) ==
    /\ trimmed # <<>>
    /\ \/ trimmed[1] = BACKTICK
       \/ trimmed[Len(trimmed)] = BACKTICK
       \/ /\ Len(trimmed) >= 3
          /\ trimmed[1] = " "
          /\ trimmed[Len(trimmed)] = " "
          /\ \E i \in 2..(Len(trimmed) - 1) : trimmed[i] # " "

\* the delimiter without the loop: the single backtick it starts as
DelimiterUnextended(matches, delimiter) == delimiter

\* a delimiter one backtick longer than the longest run
DelimiterPastLongest(matches, delimiter) ==
    LET lengths == {Len(matches[i]) : i \in 1..Len(matches)} \cup {0}
    IN  repeat(BACKTICK, 1 + CHOOSE l \in lengths : \A k \in lengths : k <= l)

\* while (matches.includes(delimiter)) delimiter = delimiter + BACKTICK
\* (default-rules.ts:297)
RECURSIVE Delimiter(_, _)
Delimiter(matches, delimiter) ==
    IF Includes(matches, delimiter)
    THEN Delimiter(matches, delimiter \o <<BACKTICK>>)
    ELSE delimiter

codeReplacement(cont) ==
    LET trimmed == ReplaceLineBreaks(cont)
        extraSpace == IF NeedsExtraSpace(trimmed) THEN <<" ">> ELSE <<>>
        matches == BacktickRuns(trimmed, 1)
        delimiter == Delimiter(matches, <<BACKTICK>>)
    IN  delimiter \o extraSpace \o trimmed \o extraSpace \o delimiter

\* pieces of content: text, a space, line breaks, runs of one to four backticks
ContentPieces ==
    { <<"a">>, <<" ">>, <<NL>>, <<CR>>,
      repeat(BACKTICK, 1), repeat(BACKTICK, 2), repeat(BACKTICK, 3),
      repeat(BACKTICK, 4) }

RECURSIVE Concat(_)
Concat(pieces) ==
    IF pieces = <<>> THEN <<>> ELSE Head(pieces) \o Concat(Tail(pieces))

InitCode ==
    /\ content \in {Concat(pieces) :
                       pieces \in UNION {[1..n -> ContentPieces] : n \in 0..MaxPieces}}
    /\ inlineCode = <<>>

\* the rule applied to the content of a CODE element
code ==
    /\ inlineCode = <<>>
    /\ inlineCode' = <<codeReplacement(content)>>
    /\ UNCHANGED content

InitSpecCode ==
    /\ InitCode
    /\ IdleRules /\ IdleUnsupported /\ IdleJoin /\ IdleProcess
    /\ IdleClassifier /\ IdleFence
    /\ IdleLater

notCodeVars ==
    <<rulesVars, unsupportedVars, joinVars, processVars, classifierVars, fenceVars, laterVars>>

NextCode == code /\ UNCHANGED notCodeVars

SpecCode == InitSpecCode /\ [][NextCode]_vars

----------------------------------------------------------------------------
(* Properties of the inline code delimiter *)

\* the lengths of the maximal backtick runs of s
RunLengths(s) ==
    {RunAt(s, i, BACKTICK) :
        i \in {j \in 1..Len(s) :
                  s[j] = BACKTICK /\ (j = 1 \/ s[j - 1] # BACKTICK)}}

\* the longest of them (0 when s holds no backtick)
LongestRun(s) ==
    LET lengths == RunLengths(s) \cup {0}
    IN  CHOOSE l \in lengths : \A k \in lengths : k <= l

\* the inline code is the content, line breaks replaced, between two
\* delimiters of n backticks (and the extra spaces of the rule)
DelimitedBy(n) ==
    LET trimmed == ReplaceLineBreaks(content)
        extraSpace == IF NeedsExtraSpace(trimmed) THEN <<" ">> ELSE <<>>
        delimiter == [i \in 1..n |-> BACKTICK]
    IN  inlineCode[1] = delimiter \o extraSpace \o trimmed \o extraSpace \o delimiter

\* C10 as stated: the delimiter has one backtick more than the longest
\* backtick run of the content.
C10_OnePastLongestRun ==
    inlineCode # <<>> => DelimitedBy(1 + LongestRun(content))

\* C10, amended: the delimiter has at least one backtick and at most one
\* more than the longest backtick run of the content, and it has one more
\* than the longest run exactly when the content holds a run of every
\* length from 1 to the longest.
C10_AtMostOnePastLongestRun ==
    inlineCode # <<>> =>
        LET L == LongestRun(content)
        IN  \E n \in 1..(1 + L) :
                /\ DelimitedBy(n)
                /\ n = 1 + L <=> \A k \in 1..L : k \in RunLengths(content)

\* content whose runs have three and four backticks, delimited by one
C10_Witness ==
    /\ inlineCode # <<>>
    /\ RunLengths(content) = {3, 4}
    /\ DelimitedBy(1)

----------------------------------------------------------------------------
(* The referenceLink rule (default-rules.ts:187-263) and Turnish.render,
   Turnish.postProcess (part_001:126-137, 243-252) on one instance *)

\* the renders started on the instance, at most
MaxRenders == 2

\* the links the renders of the instance convert, at most
MaxLinks == 3

\* sanitizeWhitespace (part_000:309-311): replace(/(\n+\s*)+/g, '\n')
RECURSIVE sanitizeWhitespace(_)
sanitizeWhitespace(s) ==
    IF s = <<>> THEN <<>>
    ELSE IF Head(s) = NL THEN <<NL>> \o sanitizeWhitespace(TrimStart(s))
    ELSE <<Head(s)>> \o sanitizeWhitespace(Tail(s))

\* replace(/[\t\r\n]+/g, ' ')
RECURSIVE ReplaceControlRuns(_)
ReplaceControlRuns(s) ==
    IF s = <<>> THEN <<>>
    ELSE IF Head(s) \in {TAB, CR, NL}
    THEN <<" ">> \o ReplaceControlRuns(
                        SubSeq(s, LeadingRun(s, {TAB, CR, NL}) + 1, Len(s)))
    ELSE <<Head(s)>> \o ReplaceControlRuns(Tail(s))

\* sanitizedLinkTitle (part_000:321-325)
sanitizedLinkTitle(c) == ReplaceControlRuns(sanitizeWhitespace(c))

\* An A element with an href: its href and title attributes (title <<>>
\* when absent) and the content process returned for it
Link(href, title, cont) == [href |-> href, title |-> title, content |-> cont]

\* const referenceKey = href + title (default-rules.ts:199-208)
ReferenceTitle(link) ==
    IF link.title # <<>>
    THEN <<" ", "\"">> \o sanitizedLinkTitle(link.title) \o <<"\"">>
    ELSE <<>>

ReferenceKey(link) == link.href \o ReferenceTitle(link)

\* Map.prototype.get / has / set on a sequence of entries [key, id];
\* get gives <<>> for undefined
MapGet(m, k) ==
    IF \E i \in 1..Len(m) : m[i].key = k
    THEN <<m[CHOOSE i \in 1..Len(m) : m[i].key = k].id>>
    ELSE <<>>

MapHas(m, k) == \E i \in 1..Len(m) : m[i].key = k

MapSet(m, k, id) ==
    IF MapHas(m, k)
    THEN [i \in 1..Len(m) |-> IF m[i].key = k THEN [key |-> k, id |-> id] ELSE m[i]]
    ELSE Append(m, [key |-> k, id |-> id])

\* '[' + id + ']: ' + href + title (default-rules.ts:226, 230)
FullReference(id, link) ==
    <<"[">> \o NumberToString(id) \o <<"]", ":", " ">>
        \o link.href \o ReferenceTitle(link)

\* '[' + content + ']: ' + referenceKey (default-rules.ts:215, 219)
LabelReference(link) ==
    <<"[">> \o link.content \o <<"]", ":", " ">> \o ReferenceKey(link)

\* the full style minting an id for every link
FullStyleNeverReusing(link, opts, refs, map) ==
    LET key == ReferenceKey(link)
        id == Len(refs) + 1
    IN  [replacement |-> <<"[">> \o link.content \o <<"]", "[">>
                            \o NumberToString(id) \o <<"]">>,
         references |-> Append(refs, FullReference(id, link)),
         urlReferenceIdMap |-> MapSet(map, key, id)]

\* the full style always reusing the id the map holds for the key
FullStyleAlwaysReusing(link, opts, refs, map) ==
    LET key == ReferenceKey(link)
        existingKey == MapGet(map, key)
        reuse == existingKey # <<>> /\ existingKey[1] # 0
        id == IF reuse THEN existingKey[1] ELSE Len(refs) + 1
    IN  [replacement |-> <<"[">> \o link.content \o <<"]", "[">>
                            \o NumberToString(id) \o <<"]">>,
         references |-> IF reuse THEN refs ELSE Append(refs, FullReference(id, link)),
         urlReferenceIdMap |-> IF reuse THEN map ELSE MapSet(map, key, id)]

\* the default case of the switch (default-rules.ts:221-235)
FullStyle(link, opts, refs, map) ==
    LET key == ReferenceKey(link)
        existingKey == MapGet(map, key)
        reuse == /\ opts.linkReferenceDeduplication = "full"
                 /\ existingKey # <<>> /\ existingKey[1] # 0
        id == IF reuse THEN existingKey[1] ELSE Len(refs) + 1
    IN  [replacement |-> <<"[">> \o link.content \o <<"]", "[">>
                            \o NumberToString(id) \o <<"]">>,
         references |-> IF reuse THEN refs ELSE Append(refs, FullReference(id, link)),
         urlReferenceIdMap |-> IF reuse THEN map ELSE MapSet(map, key, id)]

\* the collapsed and shortcut cases, and the block behind the switch
\* (default-rules.ts:213-220, 238-248)
LabelStyle(link, opts, refs, map) ==
    LET key == ReferenceKey(link)
        push == \/ opts.linkReferenceDeduplication # "full"
                \/ ~MapHas(map, key)
    IN  [replacement |->
            <<"[">> \o link.content \o <<"]">>
                \o (IF opts.linkReferenceStyle = "collapsed" THEN <<"[", "]">> ELSE <<>>),
         references |-> IF push THEN Append(refs, LabelReference(link)) ELSE refs,
         urlReferenceIdMap |->
            IF opts.linkReferenceDeduplication = "full" /\ ~MapHas(map, key)
            THEN MapSet(map, key, 1) ELSE map]

\* referenceLinkRule.replacement (default-rules.ts:196-249): the replacement,
\* and the accumulator it leaves
referenceLinkReplacement(link, opts, refs, map) ==
    IF opts.linkReferenceStyle \in {"collapsed", "shortcut"}
    THEN LabelStyle(link, opts, refs, map)
    ELSE FullStyle(link, opts, refs, map)

\* referenceLinkRule.append that emits nothing
AppendNothing(refs, map) ==
    [text |-> <<>>, references |-> refs, urlReferenceIdMap |-> map]

\* referenceLinkRule.append that leaves the accumulator as it is
AppendWithoutClearing(refs, map) ==
    IF Len(refs) > 0
    THEN [text |-> <<NL, NL>> \o JoinLines(refs) \o <<NL, NL>>,
          references |-> refs, urlReferenceIdMap |-> map]
    ELSE [text |-> <<>>, references |-> refs, urlReferenceIdMap |-> map]

\* referenceLinkRule.append (default-rules.ts:252-261): the text, and the
\* accumulator it leaves
referenceLinkAppend(refs, map) ==
    IF Len(refs) > 0
    THEN [text |-> <<NL, NL>> \o JoinLines(refs) \o <<NL, NL>>,
          references |-> <<>>, urlReferenceIdMap |-> <<>>]
    ELSE [text |-> <<>>, references |-> refs, urlReferenceIdMap |-> map]

\* the rules that carry an append function: the referenceLink rule
HasAppend(r) == r.replacement = "referenceLink"

\* the loop of postProcess (part_001:244-248) from rule i on: the output,
\* and the accumulator the appends leave
RECURSIVE PostProcessFrom(_, _, _, _, _)
PostProcessFrom(rules, i, out, refs, map) ==
    IF i > Len(rules)
    THEN [output |-> out, references |-> refs, urlReferenceIdMap |-> map]
    ELSE IF HasAppend(rules[i])
    THEN LET appended == referenceLinkAppend(refs, map)
         IN  PostProcessFrom(rules, i + 1, join(out, appended.text),
                             appended.references, appended.urlReferenceIdMap)
    ELSE PostProcessFrom(rules, i + 1, out, refs, map)

\* String.prototype.trim in place of the two replacements
TrimBothEnds(out) == Trim(out)

\* .replace(/^[\t\r\n]+/, '').replace(/[\t\r\n\s]+$/, '') (part_001:249-251)
TrimOutput(out) ==
    TrimEnd(SubSeq(out, LeadingRun(out, {TAB, CR, NL}) + 1, Len(out)))

\* the values handed to render: null, undefined, a number, the empty
\* string, a string of HTML, and nodes by nodeType
Input(type, nodeType, empty, string) ==
    [type |-> type, nodeType |-> nodeType, empty |-> empty, string |-> string]

Inputs ==
    { Input("null", 0, FALSE, "null"),
      Input("undefined", 0, FALSE, "undefined"),
      Input("number", 0, FALSE, "5"),
      Input("string", 0, TRUE, ""),
      Input("string", 0, FALSE, "<html>"),
      Input("object", 1, FALSE, "[object HTMLElement]"),
      Input("object", 3, FALSE, "[object Text]"),
      Input("object", 9, FALSE, "[object Document]"),
      Input("object", 11, FALSE, "[object DocumentFragment]") }

\* canConvert taking every node
CanConvertAnyNode(input) ==
    /\ input.type \notin {"null", "undefined"}
    /\ \/ input.type = "string"
       \/ input.nodeType # 0

\* canConvert (part_001:306-315)
canConvert(input) ==
    /\ input.type \notin {"null", "undefined"}
    /\ \/ input.type = "string"
       \/ /\ input.nodeType # 0
          /\ input.nodeType \in {1, 9, 11}

\* the links of a document: two hrefs, one of them with and without a title
Links ==
    { Link(<<"a">>, <<>>, <<"x">>),
      Link(<<"b">>, <<>>, <<"x">>),
      Link(<<"a">>, <<"t">>, <<"x">>) }

\* the links of a document whose links differ in their content: one href
\* with two contents, one content with two hrefs
LabelLinks ==
    { Link(<<"a">>, <<>>, <<"x">>),
      Link(<<"a">>, <<>>, <<"y">>),
      Link(<<"b">>, <<>>, <<"x">>) }

\* A render that is running: the links it has converted, its output so
\* far, and what is observed of it: the number of renders that
\* were running and the pending definitions it found when it started, the
\* definitions it has put in the accumulator that are still pending,
\* those of its definitions that the postProcess of another render flushed,
\* and whether such a postProcess came after its start.
Frame(depth, pending) ==
    [links |-> <<>>, output |-> <<>>,
     depth |-> depth, pendingAtStart |-> pending,
     pendingOwn |-> <<>>, lost |-> <<>>, overlapped |-> depth > 0,
     pendingTaken |-> FALSE]

\* A render as the last step shows it: it has passed the tests of render
\* and runs, or it has ended with a string or with a TypeError. input is
\* <<>> for a render that ends behind process.
RenderRunning(input, depth, pending) ==
    [input |-> <<input>>, outcome |-> "running", output |-> <<>>,
     message |-> <<>>, links |-> <<>>, depth |-> depth,
     pendingAtStart |-> pending, lost |-> <<>>, ownAtEnd |-> <<>>,
     overlapped |-> depth > 0, pendingTaken |-> FALSE]

RenderReturned(input, frame, out) ==
    [input |-> input, outcome |-> "returned", output |-> out,
     message |-> <<>>, links |-> frame.links, depth |-> frame.depth,
     pendingAtStart |-> frame.pendingAtStart, lost |-> frame.lost,
     ownAtEnd |-> frame.pendingOwn, overlapped |-> frame.overlapped,
     pendingTaken |-> frame.pendingTaken]

RenderThrew(input, depth, pending) ==
    [input |-> <<input>>, outcome |-> "TypeError", output |-> <<>>,
     message |-> <<input.string,
                   " is not a string, or an element/document/fragment node.">>,
     links |-> <<>>, depth |-> depth, pendingAtStart |-> pending,
     lost |-> <<>>, ownAtEnd |-> <<>>, overlapped |-> depth > 0,
     pendingTaken |-> FALSE]

\* new Turnish({linkStyle: 'referenced', ...}) (part_001:114-117) with the
\* accumulator of its referenceLink rule (default-rules.ts:250-251)
InitRender ==
    /\ options \in {[defaultOptions EXCEPT !.linkStyle = "referenced",
                                           !.linkReferenceStyle = st,
                                           !.linkReferenceDeduplication = d] :
                       st \in {"full", "collapsed", "shortcut"},
                       d \in {"full", "none"}}
    /\ array = defaultRules
    /\ _keep = <<>>
    /\ _remove = <<>>
    /\ node = NoNode
    /\ outcome = "none"
    /\ rule = NoRule
    /\ references = <<>>
    /\ urlReferenceIdMap = <<>>
    /\ frames = <<>>
    /\ rendered = <<>>
    /\ calls = 0
    /\ converted = 0

\* Turnish.render (part_001:126-137) up to the call of process. It is called
\* when no render runs, or from a replacement function of the running render.
render ==
    /\ calls < MaxRenders
    /\ calls' = calls + 1
    /\ \E input \in Inputs :
         LET depth == Len(frames)
         IN  IF ~canConvert(input)
             THEN /\ rendered' = <<RenderThrew(input, depth, references)>>
                  /\ UNCHANGED frames
             ELSE IF input.type = "string" /\ input.empty
             THEN /\ rendered' = <<RenderReturned(<<input>>, Frame(depth, references), <<>>)>>
                  /\ UNCHANGED frames
             ELSE /\ frames' = Append([i \in 1..Len(frames) |->
                                         [frames[i] EXCEPT !.overlapped = TRUE]],
                                      Frame(depth, references))
                  /\ rendered' = <<RenderRunning(input, depth, references)>>
    /\ UNCHANGED <<rulesVars, references, urlReferenceIdMap, converted>>

\* process reaches an A element with an href in the document of the running
\* render (part_001:216-233): the replacement is joined to its output
convertLink(links) ==
    /\ frames # <<>>
    /\ converted < MaxLinks
    /\ converted' = converted + 1
    /\ \E link \in links :
         LET top == frames[Len(frames)]
             r == referenceLinkReplacement(link, options, references, urlReferenceIdMap)
         IN  /\ references' = r.references
             /\ urlReferenceIdMap' = r.urlReferenceIdMap
             /\ frames' = [frames EXCEPT ![Len(frames)] =
                              [top EXCEPT !.links = Append(top.links, link),
                                          !.output = join(top.output, r.replacement),
                                          !.pendingOwn =
                                              top.pendingOwn \o
                                              SubSeq(r.references, Len(references) + 1,
                                                     Len(r.references))]]
    /\ rendered' = <<>>
    /\ UNCHANGED <<rulesVars, calls>>

referenceLink == convertLink(Links)

\* the same step in a document whose links differ in their content
labelledLink == convertLink(LabelLinks)

\* process has returned: Turnish.postProcess (part_001:243-252) ends the
\* running render
postProcess ==
    /\ frames # <<>>
    /\ LET top == frames[Len(frames)]
           p == PostProcessFrom(array, 1, top.output, references, urlReferenceIdMap)
           flushed == references # <<>> /\ p.references = <<>>
       IN  /\ references' = p.references
           /\ urlReferenceIdMap' = p.urlReferenceIdMap
           /\ rendered' = <<RenderReturned(<<>>, top, TrimOutput(p.output))>>
           /\ frames' = [i \in 1..(Len(frames) - 1) |->
                            IF flushed
                            THEN [frames[i] EXCEPT
                                     !.lost = frames[i].lost \o frames[i].pendingOwn,
                                     !.pendingOwn = <<>>,
                                     !.pendingTaken = TRUE]
                            ELSE frames[i]]
    /\ UNCHANGED <<rulesVars, calls, converted>>

InitSpecRender ==
    /\ InitRender
    /\ IdleUnsupported /\ IdleJoin /\ IdleProcess /\ IdleClassifier
    /\ IdleFence /\ IdleCode /\ IdleDocument /\ IdleEscape /\ IdleWalk
    /\ IdleFields
    /\ IdleLists
    /\ IdleAppend
    /\ IdleTree
    /\ IdleTrim
    /\ IdleFlanking

notRenderVars ==
    <<unsupportedVars, joinVars, processVars, classifierVars, fenceVars, codeVars,
      documentVars, escapeVars, walkVars, fieldVars,
      listsVars,
      appendVars,
      treeVars,
      trimVars,
      flankingVars>>

NextRender ==
    \/ render /\ UNCHANGED notRenderVars
    \/ referenceLink /\ UNCHANGED notRenderVars
    \/ postProcess /\ UNCHANGED notRenderVars

SpecRender == InitSpecRender /\ [][NextRender]_vars

NextLabels ==
    \/ render /\ UNCHANGED notRenderVars
    \/ labelledLink /\ UNCHANGED notRenderVars
    \/ postProcess /\ UNCHANGED notRenderVars

SpecLabels == InitSpecRender /\ [][NextLabels]_vars

----------------------------------------------------------------------------
(* Properties of the reference links of one render *)

\* the render that has just ended went through process, and no other render
\* ran while it did
EndedAlone ==
    /\ rendered # <<>>
    /\ rendered[1].outcome = "returned"
    /\ rendered[1].input = <<>>
    /\ ~rendered[1].overlapped

\* the key of link j: its href and its title
KeyOf(links, j) == <<links[j].href, links[j].title>>

\* the first link that has the key of link j
FirstWithKey(links, j) ==
    CHOOSE i \in 1..j :
        /\ KeyOf(links, i) = KeyOf(links, j)
        /\ \A k \in 1..(i - 1) : KeyOf(links, k) # KeyOf(links, j)

\* the number of distinct keys among the links up to the first one that has
\* the key of link j
DedupId(links, j) ==
    Cardinality({FirstWithKey(links, i) : i \in 1..FirstWithKey(links, j)})

\* the text of a definition
DefinitionText(id, link) ==
    <<"[">> \o NumberToString(id) \o <<"]", ":", " ">> \o link.href
        \o (IF link.title = <<>> THEN <<>>
            ELSE <<" ", "\"">> \o link.title \o <<"\"">>)

\* the markers of the links from link j on, link i numbered ids[i]
RECURSIVE MarkersFrom(_, _, _)
MarkersFrom(links, ids, j) ==
    IF j > Len(links) THEN <<>>
    ELSE <<"[">> \o links[j].content \o <<"]", "[">> \o NumberToString(ids[j])
            \o <<"]">> \o MarkersFrom(links, ids, j + 1)

\* the definitions of the links i from link j on for which defined[i]
RECURSIVE DefinitionsFrom(_, _, _, _)
DefinitionsFrom(links, ids, defined, j) ==
    IF j > Len(links) THEN <<>>
    ELSE (IF defined[j] THEN <<DefinitionText(ids[j], links[j])>> ELSE <<>>)
            \o DefinitionsFrom(links, ids, defined, j + 1)

\* the output of a render of links: the markers, and the definitions behind
\* an empty line
NumberedOutput(links, ids, defined) ==
    IF links = <<>> THEN <<>>
    ELSE MarkersFrom(links, ids, 1) \o <<NL, NL>>
            \o JoinLines(DefinitionsFrom(links, ids, defined, 1))

\* C11: with the full style and full deduplication, a link whose key is new
\* gets the next id (1, 2, 3, ... in document order), a link whose key was
\* seen reuses the id of that key, and the output holds one definition for
\* each distinct key.
C11_DeduplicatedIds ==
    (/\ EndedAlone
     /\ options.linkReferenceStyle = "full"
     /\ options.linkReferenceDeduplication = "full")
    => LET links == rendered[1].links
           ids == [j \in 1..Len(links) |-> DedupId(links, j)]
           defined == [j \in 1..Len(links) |-> FirstWithKey(links, j) = j]
       IN  rendered[1].output = NumberedOutput(links, ids, defined)

\* hrefs a, b, a: markers 1, 2, 1 and two definitions
C11_Witness ==
    /\ EndedAlone
    /\ options.linkReferenceStyle = "full"
    /\ options.linkReferenceDeduplication = "full"
    /\ rendered[1].links = <<Link(<<"a">>, <<>>, <<"x">>), Link(<<"b">>, <<>>, <<"x">>),
                             Link(<<"a">>, <<>>, <<"x">>)>>
    /\ rendered[1].output =
          <<"[", "x", "]", "[", "1", "]", "[", "x", "]", "[", "2", "]",
            "[", "x", "]", "[", "1", "]", NL, NL,
            "[", "1", "]", ":", " ", "a", NL, "[", "2", "]", ":", " ", "b">>

\* C12: with the full style and no deduplication, the n-th link of a render
\* gets id n, whatever its key, and the output holds one definition for each
\* link, in document order.
C12_FreshIdPerLink ==
    (/\ EndedAlone
     /\ options.linkReferenceStyle = "full"
     /\ options.linkReferenceDeduplication = "none")
    => LET links == rendered[1].links
           ids == [j \in 1..Len(links) |-> j]
           defined == [j \in 1..Len(links) |-> TRUE]
       IN  rendered[1].output = NumberedOutput(links, ids, defined)

\* hrefs a, b, a: markers 1, 2, 3 and three definitions
C12_Witness ==
    /\ EndedAlone
    /\ options.linkReferenceStyle = "full"
    /\ options.linkReferenceDeduplication = "none"
    /\ rendered[1].links = <<Link(<<"a">>, <<>>, <<"x">>), Link(<<"b">>, <<>>, <<"x">>),
                             Link(<<"a">>, <<>>, <<"x">>)>>
    /\ rendered[1].output =
          <<"[", "x", "]", "[", "1", "]", "[", "x", "]", "[", "2", "]",
            "[", "x", "]", "[", "3", "]", NL, NL,
            "[", "1", "]", ":", " ", "a", NL, "[", "2", "]", ":", " ", "b", NL,
            "[", "3", "]", ":", " ", "a">>

----------------------------------------------------------------------------
(* Properties of renders of one instance that overlap *)

\* d is a line of out
IsLine(d, out) ==
    \E i \in 1..Len(out) :
        /\ i + Len(d) - 1 <= Len(out)
        /\ SubSeq(out, i, i + Len(d) - 1) = d
        /\ (i = 1 \/ out[i - 1] = NL)
        /\ (i + Len(d) - 1 = Len(out) \/ out[i + Len(d)] = NL)

\* C14 as stated: a render that starts while another render of the instance
\* has definitions pending emits those definitions in its own output, and
\* the render they belong to does not emit them.
C14_PendingLeaksToSecondRender ==
    (rendered # <<>> /\ rendered[1].outcome # "running") =>
        /\ (rendered[1].depth > 0 /\ rendered[1].pendingAtStart # <<>>)
             => \A i \in 1..Len(rendered[1].pendingAtStart) :
                    IsLine(rendered[1].pendingAtStart[i], rendered[1].output)
        /\ \A i \in 1..Len(rendered[1].lost) :
               ~IsLine(rendered[1].lost[i], rendered[1].output)

\* C14, amended: a render that starts while another render of the instance
\* has definitions pending, and that goes through process and postProcess,
\* emits those definitions in its own output, unless a render started
\* inside it has emitted them before, and leaves the accumulator empty; one
\* that ends in render itself (the empty string, or a TypeError) leaves
\* them pending. The render the definitions belong to emits a
\* definition it lost only if one of its later links put an equal
\* definition in the accumulator again.
C14_PendingLeaksAtPostProcess ==
    (rendered # <<>> /\ rendered[1].outcome # "running") =>
        /\ (rendered[1].depth > 0 /\ rendered[1].pendingAtStart # <<>>)
             => IF rendered[1].input = <<>>
                THEN /\ ~rendered[1].pendingTaken =>
                          \A i \in 1..Len(rendered[1].pendingAtStart) :
                              IsLine(rendered[1].pendingAtStart[i], rendered[1].output)
                     /\ references = <<>>
                ELSE /\ references = rendered[1].pendingAtStart
                     /\ rendered[1].output = <<>>
        /\ \A i \in 1..Len(rendered[1].lost) :
               IsLine(rendered[1].lost[i], rendered[1].output)
                 => \E k \in 1..Len(rendered[1].ownAtEnd) :
                        rendered[1].ownAtEnd[k] = rendered[1].lost[i]

\* a render that has lost a definition to a render it called ends, and the
\* definition is not in its output
C14_Witness ==
    /\ rendered # <<>>
    /\ rendered[1].outcome = "returned"
    /\ rendered[1].depth = 0
    /\ rendered[1].lost # <<>>
    /\ ~IsLine(rendered[1].lost[1], rendered[1].output)
    /\ rendered[1].ownAtEnd # <<>>

----------------------------------------------------------------------------
(* Properties of the input test of render *)

\* C15: a call of render with an input that is neither a string nor a node
\* of type 1, 9 or 11 (null and undefined among them) ends with a TypeError
\* whose message starts with the input; a call with the empty string returns
\* the empty string. Either call converts no node, produces no output, and
\* leaves the rules, the accumulator and the renders that run as they were.
C15_InputRejectedBeforeProcess ==
    [][(rendered' # <<>> /\ rendered'[1].input # <<>> /\ calls' # calls) =>
          LET r == rendered'[1]
              input == r.input[1]
              convertible == \/ input.type = "string"
                             \/ input.type = "object" /\ input.nodeType \in {1, 9, 11}
              ended == /\ r.output = <<>>
                       /\ r.links = <<>>
                       /\ UNCHANGED <<rulesVars, references, urlReferenceIdMap,
                                      frames, converted>>
          IN  /\ ~convertible =>
                    /\ r.outcome = "TypeError"
                    /\ r.message[1] = input.string
                    /\ ended
              /\ (input.type = "string" /\ input.empty) =>
                    /\ r.outcome = "returned"
                    /\ ended
      ]_vars

\* render(null) called from inside a render that has a definition pending
C15_Witness ==
    /\ rendered # <<>>
    /\ rendered[1].outcome = "TypeError"
    /\ rendered[1].input[1].type = "null"
    /\ rendered[1].message[1] = "null"
    /\ frames # <<>>
    /\ references # <<>>

----------------------------------------------------------------------------
(* The elements of one document resolved against the rule table *)

\* elements of one document
MaxElements == 2

\* The element children of a DIV handed to render: a paragraph, a DEL, a
\* blank DEL and a DEL with an attribute (an unsupported element).
DocumentElements ==
    {Elem("P", {}, "DIV", NoChild, FALSE, FALSE)}
    \cup
    { Elem("DEL", {}, "DIV", NoChild, FALSE, b) : b \in BOOLEAN }
    \cup
    {Elem("DEL", {"id"}, "DIV", NoChild, FALSE, FALSE)}

Documents ==
    UNION { [1..k -> DocumentElements] : k \in 1..MaxElements }

\* process (part_001:215-234) hands every element to replacementForNode
\* (part_001:262-274), which resolves its rule first; the TypeError of
\* forNode is caught nowhere and ends render (part_001:126-137).
RECURSIVE ProcessFrom(_, _, _, _, _, _)
ProcessFrom(doc, i, arr, kp, rm, opts) ==
    IF i > Len(doc) THEN "returned"
    ELSE IF ForNode(arr, kp, rm, doc[i], opts).outcome = "threw" THEN "TypeError"
    ELSE ProcessFrom(doc, i + 1, arr, kp, rm, opts)

\* new Turnish(options), and the document that will be handed to render
InitDocument ==
    /\ InitRules
    /\ options.codeBlockStyle = "fenced"
    /\ options.linkStyle = "inlined"
    /\ document \in Documents
    /\ result = "none"

\* render (part_001:126-137) of a DIV with these element children
renderDocument ==
    /\ result' = ProcessFrom(document, 1, array, _keep, _remove, options)
    /\ UNCHANGED <<rulesVars, document>>

InitSpecDocument ==
    /\ InitDocument
    /\ IdleUnsupported /\ IdleJoin /\ IdleProcess /\ IdleClassifier
    /\ IdleFence /\ IdleCode /\ IdleRender /\ IdleEscape /\ IdleWalk
    /\ IdleFields
    /\ IdleLists
    /\ IdleAppend
    /\ IdleTree
    /\ IdleTrim
    /\ IdleFlanking

notDocumentVars ==
    <<unsupportedVars, joinVars, processVars, classifierVars, fenceVars, codeVars,
      renderVars, escapeVars, walkVars, fieldVars,
      listsVars,
      appendVars,
      treeVars,
      trimVars,
      flankingVars>>

\* a registration call comes before the next render of the document
NextDocument ==
    \/ add /\ result' = "none" /\ UNCHANGED <<document, notDocumentVars>>
    \/ keep /\ result' = "none" /\ UNCHANGED <<document, notDocumentVars>>
    \/ remove /\ result' = "none" /\ UNCHANGED <<document, notDocumentVars>>
    \/ renderDocument /\ UNCHANGED notDocumentVars

SpecDocument == InitSpecDocument /\ [][NextDocument]_vars

----------------------------------------------------------------------------
(* Properties of a wrongly typed filter *)

\* the filter of rule r is no string, array or function
WronglyTyped(r) == r.filter.type \notin {"string", "array", "function"}

\* the rules in the order forNode searches them
SearchOrder == array \o _keep \o _remove

\* element n is not blank, is not taken by a retention rule, and no rule
\* before the i-th of the search order matches it
ReachesRule(n, i) ==
    /\ ~n.isBlank
    /\ ~(options.htmlRetentionMode \in {"preserveAll", "markdownIncludingHtml"}
         /\ isUnsupportedElement(n))
    /\ \A j \in 1..(i - 1) : filterValue(SearchOrder[j], n, options) = "false"

\* some element of the document reaches a rule with a wrongly typed filter
ReachesWronglyTyped ==
    \E k \in 1..Len(document) : \E i \in 1..Len(SearchOrder) :
        /\ WronglyTyped(SearchOrder[i])
        /\ ReachesRule(document[k], i)

\* C16: a rule whose filter is no string, array or function is registered
\* by addRule, keep and remove like any other, and a render ends with the
\* TypeError exactly when some non-blank element of the document that no
\* retention rule takes reaches such a rule, no rule earlier in the search
\* order having matched it; otherwise the render returns.
C16_WrongFilterThrowsWhenReached ==
    result # "none" =>
        /\ result \in {"TypeError", "returned"}
        /\ (result = "TypeError") <=> ReachesWronglyTyped

\* keep registered a wrongly typed filter and the array holds none; the
\* paragraph of the document is matched by a built-in rule, the non-blank
\* DEL after it by no rule of the array, and the render threw
C16_Witness ==
    /\ \E i \in 1..Len(_keep) : WronglyTyped(_keep[i])
    /\ \A i \in 1..Len(array) : ~WronglyTyped(array[i])
    /\ result = "TypeError"
    /\ Len(document) = 2
    /\ document[1].nodeName = "P"
    /\ document[2].nodeName = "DEL"
    /\ ~document[2].isBlank

----------------------------------------------------------------------------
(* Turnish.escape on its own *)

\* lines of the string handed to escape
MaxTextLines == 2

\* a line for each substitution anchored with ^, and one none applies to
TextLines ==
    { <<"-", "a">>, <<"+", " ", "a">>, <<"=", "=">>, <<"#", "#", " ", "a">>,
      <<"~", "~", "~">>, <<">", "a">>, <<"1", "2", ".", " ", "a">>, <<"a", "-">> }

\* String.prototype.split('\n')
RECURSIVE Split(_)
Split(s) ==
    LET i == IndexOfFrom(s, NL, 1)
    IN  IF i = 0 THEN <<s>>
        ELSE <<SubSeq(s, 1, i - 1)>> \o Split(SubSeq(s, i + 1, Len(s)))

InitEscape ==
    /\ escapeArg \in {JoinLines(lines) :
                      lines \in UNION {[1..n -> TextLines] : n \in 1..MaxTextLines}}
    /\ escaped = <<>>

\* Turnish.escape (part_001:201-205)
callEscape ==
    /\ escaped = <<>>
    /\ escaped' = <<escape(escapeArg)>>
    /\ UNCHANGED escapeArg

InitSpecEscape ==
    /\ InitEscape
    /\ IdleRules /\ IdleUnsupported /\ IdleJoin /\ IdleProcess /\ IdleClassifier
    /\ IdleFence /\ IdleCode /\ IdleRender /\ IdleDocument /\ IdleWalk
    /\ IdleFields
    /\ IdleLists
    /\ IdleAppend
    /\ IdleTree
    /\ IdleTrim
    /\ IdleFlanking

notEscapeVars ==
    <<rulesVars, unsupportedVars, joinVars, processVars, classifierVars, fenceVars,
      codeVars, renderVars, documentVars, walkVars, fieldVars,
      listsVars,
      appendVars,
      treeVars,
      trimVars,
      flankingVars>>

NextEscape ==
    \/ callEscape /\ UNCHANGED notEscapeVars

SpecEscape == InitSpecEscape /\ [][NextEscape]_vars

----------------------------------------------------------------------------
(* Properties of escape *)

\* one of the substitutions anchored with ^ applies at the start of the line
LineAnchored(line) ==
    \/ StartsWith(line, <<"-">>)
    \/ StartsWith(line, <<"+", " ">>)
    \/ StartsWith(line, <<"=">>)
    \/ \E k \in 1..6 : LeadingRun(line, {"#"}) = k /\ Len(line) > k /\ line[k + 1] = " "
    \/ StartsWith(line, <<"~", "~", "~">>)
    \/ StartsWith(line, <<">">>)
    \/ LET k == LeadingRun(line, {DigitChars[d] : d \in 1..10})
       IN  k >= 1 /\ Len(line) >= k + 2 /\ line[k + 1] = "." /\ line[k + 2] = " "

\* C17: escape evaluates the substitutions anchored at a start per line:
\* every line of the text that begins with a leading '-', '+ ', run of '=',
\* 1 to 6 '#' and a space, '~~~', '>' or 'N. ' comes out escaped as it would
\* at the start of the string, whichever line of the text it is.
C17_AnchoredPerLine ==
    escaped # <<>> =>
        LET in == Split(escapeArg)
            out == Split(escaped[1])
        IN  /\ Len(out) = Len(in)
            /\ \A i \in 1..Len(in) :
                  LineAnchored(in[i]) => (out[i] = escape(in[i]) /\ out[i] # in[i])

----------------------------------------------------------------------------
(* The tree walk of process over the text nodes *)

\* The root node render hands to process wraps the input (root-node is not
\* among the sources): it is no CODE element, and process classifies its
\* descendants only.
RootNode == [nodeType |-> 1, nodeName |-> "#root"]

\* inline and code elements, a checkbox, and text that escape changes
WalkKinds ==
    { <<1, "SPAN", <<>>, "">>, <<1, "CODE", <<>>, "">>,
      <<1, "INPUT", <<>>, "checkbox">>,
      <<3, "#text", <<" ", "*">>, "">>, <<3, "#text", <<"*">>, "">> }

WalkNode(k, parent) ==
    [nodeType |-> k[1], nodeName |-> k[2], nodeValue |-> k[3], parent |-> parent,
     inputType |-> k[4]]

\* the trees in document order; an INPUT has no children
WalkTrees ==
    {d \in UNION {[1..n -> {WalkNode(k, q) : k \in WalkKinds, q \in 0..(MaxNodes - 1)}] :
                     n \in 1..MaxNodes} :
        /\ IsDocumentOrder(d)
        /\ \A i \in 1..Len(d) : d[i].parent # 0 => d[d[i].parent].nodeName # "INPUT"}

\* node.previousSibling as an index, 0 for none
PreviousSiblingIndex(d, i) ==
    LET S == {j \in 1..(i - 1) : d[j].parent = d[i].parent}
    IN  IF S = {} THEN 0 ELSE CHOOSE j \in S : \A k \in S : k <= j

\* the text branch of process with every text escaped
TextEmissionAlwaysEscaped(d, i, isCode) ==
    LET p == PreviousSiblingIndex(d, i)
        value ==
           IF /\ p # 0
              /\ d[p].nodeType = 1
              /\ d[p].nodeName = "INPUT"
              /\ d[p].inputType = "checkbox"
           THEN TrimStart(d[i].nodeValue)
           ELSE d[i].nodeValue
    IN  [value |-> value, replacement |-> escape(value), escapeCalls |-> 1]

\* the text branch of process (part_001:219-228) for text node i: the value
\* after the checkbox adjustment, the replacement, and the calls of escape
TextEmission(d, i, isCode) ==
    LET p == PreviousSiblingIndex(d, i)
        value ==
           IF /\ p # 0
              /\ d[p].nodeType = 1
              /\ d[p].nodeName = "INPUT"
              /\ d[p].inputType = "checkbox"
           THEN TrimStart(d[i].nodeValue)
           ELSE d[i].nodeValue
    IN  [value |-> value,
         replacement |-> IF isCode THEN value ELSE escape(value),
         escapeCalls |-> IF isCode THEN 0 ELSE 1]

\* an element is emitted by its rule (part_001:229-230)
ElementEmission == [value |-> <<>>, replacement |-> <<>>, escapeCalls |-> 0]

InitWalk ==
    /\ options \in {[defaultOptions EXCEPT !.preformattedCode = b] : b \in BOOLEAN}
    /\ dom \in WalkTrees
    /\ target = 0
    /\ extended = <<>>
    /\ emitted = <<>>

\* One step of process (part_001:215-234) on the next node in document
\* order: the node is classified, and a text node is emitted.
processNode ==
    /\ ExtendedNode
    /\ LET i == target + 1
       IN  emitted' =
              Append(emitted,
                     IF dom[i].nodeType = 3
                     THEN TextEmission(dom, i, extended'[i].isCode)
                     ELSE ElementEmission)

InitSpecWalk ==
    /\ InitWalk
    /\ array = <<>> /\ _keep = <<>> /\ _remove = <<>>
    /\ node = NoNode /\ outcome = "none" /\ rule = NoRule
    /\ IdleUnsupported /\ IdleJoin /\ IdleProcess /\ IdleFence /\ IdleCode
    /\ IdleRender /\ IdleDocument /\ IdleEscape /\ IdleFields
    /\ IdleLists
    /\ IdleAppend
    /\ IdleTree
    /\ IdleTrim
    /\ IdleFlanking

notWalkVars ==
    <<array, _keep, _remove, node, outcome, rule,
      unsupportedVars, joinVars, processVars, fenceVars, codeVars,
      renderVars, documentVars, escapeVars, fieldVars,
      listsVars,
      appendVars,
      treeVars,
      trimVars,
      flankingVars>>

NextWalk == processNode /\ UNCHANGED notWalkVars

SpecWalk == InitSpecWalk /\ [][NextWalk]_vars

----------------------------------------------------------------------------
(* Properties of the walk over text *)

\* node i has a CODE element among its ancestors
HasCodeAncestor(d, i) ==
    \/ RootNode.nodeName = "CODE"
    \/ \E j \in 1..Len(d) : IsAncestor(d, j, i) /\ d[j].nodeName = "CODE"

\* C18: text in code elements is never passed to escape: every text node
\* the walk has reached that has a CODE ancestor at any depth was emitted as
\* its raw value with no call of escape, and every other text node was
\* emitted as escape of its value, with exactly one call.
C18_CodeTextNeverEscaped ==
    \A i \in 1..Len(emitted) :
        dom[i].nodeType = 3 =>
            IF HasCodeAncestor(dom, i)
            THEN /\ emitted[i].escapeCalls = 0
                 /\ emitted[i].replacement = emitted[i].value
            ELSE /\ emitted[i].escapeCalls = 1
                 /\ emitted[i].replacement = escape(emitted[i].value)

\* a text that escape changes, under a SPAN under a CODE, was emitted raw
C18_Witness ==
    /\ Len(emitted) = 3
    /\ dom[1].nodeName = "CODE"
    /\ dom[2].nodeName = "SPAN" /\ dom[2].parent = 1
    /\ dom[3].nodeType = 3 /\ dom[3].parent = 2
    /\ escape(dom[3].nodeValue) # dom[3].nodeValue
    /\ emitted[3].replacement = dom[3].nodeValue

----------------------------------------------------------------------------
(* The classification fields on the node objects, over repeated renders *)

\* renders of one document
MaxPasses == 2

\* a node object that carries no classification field
NoFields == <<>>

\* ExtendedNode with the fields a node already carries kept
ExtendedNodeCached(d, i, fields, stamp, opts) ==
    IF fields[i] # NoFields
    THEN [fields |-> fields, reads |-> {fields[i][1].computedIn}]
    ELSE LET n == d[i]
             parentRead ==
                n.nodeName # "CODE" /\ n.parent # 0 /\ fields[n.parent] # NoFields
             parentIsCode == parentRead /\ fields[n.parent][1].classification.isCode
             new == [classification |-> Classification(d, i, parentIsCode, opts),
                     computedIn |-> stamp]
         IN  [fields |-> [fields EXCEPT ![i] = <<new>>],
              reads |-> (IF parentRead THEN {fields[n.parent][1].computedIn} ELSE {})
                           \cup {stamp}]

\* ExtendedNode (part_000:26-33) on node object i during render number stamp.
\* The four values are assigned to the node object itself (extended is the
\* node, part_000:27). isCode reads the field of the parent object unless
\* the node is a CODE (part_000:29); the object of the root carries none.
\* The fields of the node itself are read after they are written
\* (part_000:48, rules.ts:81, part_001:77-106, 228, 265). reads are the
\* renders that computed the fields read.
ExtendedNodeOn(d, i, fields, stamp, opts) ==
    LET n == d[i]
        parentRead ==
           n.nodeName # "CODE" /\ n.parent # 0 /\ fields[n.parent] # NoFields
        parentIsCode == parentRead /\ fields[n.parent][1].classification.isCode
        new == [classification |-> Classification(d, i, parentIsCode, opts),
                computedIn |-> stamp]
        written == [fields EXCEPT ![i] = <<new>>]
    IN  [fields |-> written,
         reads |-> (IF parentRead THEN {fields[n.parent][1].computedIn} ELSE {})
                      \cup {written[i][1].computedIn}]

\* the first render of a document whose node objects are new
InitFields ==
    /\ options \in {[defaultOptions EXCEPT !.preformattedCode = b] : b \in BOOLEAN}
    /\ dom \in WalkTrees
    /\ target = 0
    /\ nodeFields = [i \in 1..Len(dom) |-> NoFields]
    /\ renderNo = 1
    /\ fieldReads = {}

\* one step of process (part_001:215-234): the next node is classified
classifyNode ==
    /\ target < Len(dom)
    /\ LET i == target + 1
           r == ExtendedNodeOn(dom, i, nodeFields, renderNo, options)
       IN  /\ nodeFields' = r.fields
           /\ fieldReads' = r.reads
           /\ target' = i
    /\ UNCHANGED <<dom, options, renderNo>>

\* render (part_001:126-137) called again with the same node objects, under
\* a new root
renderAgain ==
    /\ target = Len(dom)
    /\ renderNo < MaxPasses
    /\ renderNo' = renderNo + 1
    /\ target' = 0
    /\ fieldReads' = {}
    /\ UNCHANGED <<dom, options, nodeFields>>

InitSpecFields ==
    /\ InitFields
    /\ extended = <<>>
    /\ array = <<>> /\ _keep = <<>> /\ _remove = <<>>
    /\ node = NoNode /\ outcome = "none" /\ rule = NoRule
    /\ IdleUnsupported /\ IdleJoin /\ IdleProcess /\ IdleFence /\ IdleCode
    /\ IdleRender /\ IdleDocument /\ IdleEscape /\ IdleWalk
    /\ IdleLists
    /\ IdleAppend
    /\ IdleTree
    /\ IdleTrim
    /\ IdleFlanking

notFieldVars ==
    <<array, _keep, _remove, node, outcome, rule, extended,
      unsupportedVars, joinVars, processVars, fenceVars, codeVars,
      renderVars, documentVars, escapeVars, walkVars,
      listsVars,
      appendVars,
      treeVars,
      trimVars,
      flankingVars>>

NextFields ==
    \/ classifyNode /\ UNCHANGED notFieldVars
    \/ renderAgain /\ UNCHANGED notFieldVars

SpecFields == InitSpecFields /\ [][NextFields]_vars

----------------------------------------------------------------------------
(* Properties of the classification fields *)

----------------------------------------------------------------------------
(* Properties of the ordered list marker *)

\* process has just converted a list item of an ordered list, and the item
\* got a marker (an item holding only a nested list gets none)
OrderedItemConverted ==
    /\ index >= 1
    /\ parentNode.nodeName = "OL"
    /\ childNodes[index].nodeType = 1
    /\ childNodes[index].nodeName = "LI"
    /\ ~childNodes[index].onlyNestedList

\* the value of the start attribute of the list, or 1 when it has none (or
\* an empty one)
StartOrOne ==
    IF parentNode.start = <<>> \/ parentNode.start[1] = <<>> THEN 1
    ELSE Number(parentNode.start[1])

\* the number the marker of a replacement shows: the digits before the
\* first '.', after the indentation
MarkerNumber(replacement) ==
    LET r == TrimStart(replacement)
        k == LeadingRun(r, {DigitChars[d] : d \in 1..10})
    IN  IF k >= 1 /\ Len(r) > k /\ r[k + 1] = "." THEN <<Number(SubSeq(r, 1, k))>>
        ELSE <<>>

\* C20: the marker of an item of an ordered list shows the value of the
\* list's start attribute, or 1 when it has none, plus the zero-based index
\* of the item among the element children of the list, whatever the nesting
\* depth of the list.
C20_OrderedMarkerNumber ==
    OrderedItemConverted =>
        MarkerNumber(seam.right) =
            <<StartOrOne
                + Cardinality({j \in 1..(index - 1) : childNodes[j].nodeType = 1})>>

\* in a list with start 0 nested two levels deep, the item after a text node
\* and a paragraph got the number 1
C20_Witness ==
    /\ OrderedItemConverted
    /\ parentNode.start = <<<<"0">>>>
    /\ Len(parentNode.ancestors) = 5
    /\ index = 3
    /\ childNodes[1].nodeType = 3
    /\ childNodes[2].nodeName = "P"
    /\ MarkerNumber(seam.right) = <<1>>

----------------------------------------------------------------------------
(* Nested lists: a chain of lists, each the child of an item of the one above *)

\* the lists of a chain, the outermost first
MaxListDepth == 3

\* a list of the chain: its nodeName, its start attribute, and the shape of
\* the item that holds the next list of the chain (the last list holds none):
\* the item holds its text and the list, or a paragraph and the list, or
\* only the list, its text then being in the item before it
ListOf(name, start, shape) == [nodeName |-> name, start |-> start, shape |-> shape]

ListKinds ==
    { <<"UL", <<>>>>, <<"OL", <<<<"3">>>>>>, <<"OL", <<<<"-", "1">>>>>> }

ListChains ==
    UNION {
        {c \in [1..d -> {ListOf(k[1], k[2], sh) :
                            k \in ListKinds,
                            sh \in {"text", "paragraph", "onlyList"}}] :
            c[d].shape # "onlyList"} :
        d \in 1..MaxListDepth }

\* the text of the item of level k
ItemText(k) == <<(<<"a", "b", "c", "d", "e">>)[k]>>

\* the nodeNames above the list of level k, from its parent upwards
RECURSIVE AncestorsOf(_, _)
AncestorsOf(chain, k) ==
    IF k = 1 THEN <<"BODY">>
    ELSE <<"LI", chain[k - 1].nodeName>> \o AncestorsOf(chain, k - 1)

\* Turnish.process (part_001:215-234): the reduce over the first i child
\* nodes of parent, with the rules of the constructor
RECURSIVE process(_, _, _, _)
process(parent, children, i, opts) ==
    IF i = 0 THEN <<>>
    ELSE join(process(parent, children, i - 1, opts),
              ChildReplacement(children[i], parent, children, i,
                               [array |-> defaultRules, keep |-> <<>>,
                                remove |-> <<>>],
                               opts))

\* new Turnish(options) with the two options of the indentation, and a
\* chain of lists whose innermost list is converted first
InitLists ==
    /\ \E indent \in {"tab", "space"}, count \in {2, 4} :
          options = [defaultOptions EXCEPT !.listItemIndent = indent,
                                           !.listItemIndentSpaceCount = count]
    /\ array = defaultRules
    /\ _keep = <<>>
    /\ _remove = <<>>
    /\ node = NoNode
    /\ outcome = "none"
    /\ rule = NoRule
    /\ listChain \in ListChains
    /\ listLevel = Len(listChain)
    /\ listContent = <<>>

\* process(node) for the list of level listLevel (part_001:215-234,
\* 262-274), the content of the list below it being what process returned
\* for that list
convertList ==
    /\ listLevel >= 1
    /\ LET k == listLevel
           list == listChain[k]
           above == AncestorsOf(listChain, k)
           item == Parent("LI", <<>>, <<list.nodeName>> \o above)
           nested ==
              IF k = Len(listChain) THEN <<>>
              ELSE <<ElementChild(listChain[k + 1].nodeName, FALSE,
                                  listContent, FALSE)>>
           itemChildren ==
              CASE list.shape = "text" -> <<TextChild(ItemText(k))>> \o nested
                [] list.shape = "paragraph" ->
                      <<ElementChild("P", FALSE, ItemText(k), FALSE)>> \o nested
                [] list.shape = "onlyList" -> nested
           itemContent == process(item, itemChildren, Len(itemChildren), options)
           listChildren ==
              IF list.shape = "onlyList"
              THEN <<ElementChild("LI", FALSE, ItemText(k), FALSE),
                     ElementChild("LI", FALSE, itemContent, TRUE)>>
              ELSE <<ElementChild("LI", FALSE, itemContent, FALSE)>>
       IN  /\ listContent' =
                process(Parent(list.nodeName, list.start, above),
                        listChildren, Len(listChildren), options)
           /\ listLevel' = k - 1
    /\ UNCHANGED listChain

InitSpecLists ==
    /\ InitLists
    /\ IdleUnsupported /\ IdleJoin /\ IdleProcess /\ IdleClassifier
    /\ IdleFence /\ IdleCode /\ IdleRender /\ IdleDocument /\ IdleEscape
    /\ IdleWalk /\ IdleFields
    /\ IdleAppend
    /\ IdleTree
    /\ IdleTrim
    /\ IdleFlanking

notListsVars ==
    <<rulesVars, unsupportedVars, joinVars, processVars, classifierVars,
      fenceVars, codeVars, renderVars, documentVars, escapeVars, walkVars,
      fieldVars,
      appendVars,
      treeVars,
      trimVars,
      flankingVars>>

NextLists == convertList /\ UNCHANGED notListsVars

SpecLists == InitSpecLists /\ [][NextLists]_vars

----------------------------------------------------------------------------
(* Properties of the indentation of nested lists *)

\* the indent unit of the options
IndentUnit ==
    IF options.listItemIndent = "tab" THEN <<TAB>>
    ELSE [i \in 1..options.listItemIndentSpaceCount |-> " "]

\* the marker of the first item of the list of level k
FirstMarker(k) ==
    IF listChain[k].nodeName = "UL" THEN <<"-", " ">>
    ELSE IF listChain[k].start = <<<<"3">>>> THEN <<"3", ".", " ">>
    ELSE <<"-", "1", ".", " ">>

\* the lines of the output that hold the text of the item of level k
LinesOf(k) ==
    LET lines == Split(listContent)
    IN  {lines[n] : n \in {m \in 1..Len(lines) :
                              \E p \in 1..Len(lines[m]) :
                                  <<lines[m][p]>> = ItemText(k)}}

\* C21: in the output of the outermost list, the marker line of the item of
\* every level is indented by depth times the indent unit, the depth being
\* the number of ancestor lists whose parent is an item (k - 1 for level k)
\* and the unit one tab, or listItemIndentSpaceCount spaces.
C21_MarkerIndentation ==
    listLevel = 0 =>
        \A k \in 1..Len(listChain) :
            LinesOf(k) =
                {RepeatString(IndentUnit, k - 1) \o FirstMarker(k) \o ItemText(k)}

----------------------------------------------------------------------------
(* Properties of the definitions of the collapsed and shortcut styles *)

\* the lines of an output that are definitions of a one-character label
DefinitionLines(out) ==
    LET lines == Split(out)
    IN  {n \in 1..Len(lines) :
            /\ Len(lines[n]) >= 4
            /\ lines[n][1] = "["
            /\ lines[n][3] = "]"
            /\ lines[n][4] = ":"}

\* the contents of the links a render converted
LabelsOf(links) == {links[i].content : i \in 1..Len(links)}

\* C22: with the collapsed or the shortcut style and full deduplication, the
\* output of a render holds one definition for each distinct content label
\* of its links: one for two links of the same label, two for two links of
\* different labels, whatever their href and title.
C22_OneDefinitionPerLabel ==
    (/\ EndedAlone
     /\ options.linkReferenceStyle \in {"collapsed", "shortcut"}
     /\ options.linkReferenceDeduplication = "full")
    => Cardinality(DefinitionLines(rendered[1].output))
          = Cardinality(LabelsOf(rendered[1].links))

----------------------------------------------------------------------------
(* postProcess over a rule table that holds added rules with an append *)

\* the text the append of an added rule returns: the rule added n-th, "rn"
AppendText(r) == <<"r">> \o NumberToString(r.serial)

\* rule.append(this.options) where only the referenceLink rule has an append
AppendOfBuiltinOnly(r, refs, map) ==
    IF HasAppend(r) THEN <<referenceLinkAppend(refs, map).text>> ELSE <<>>

\* rule.append(this.options) (part_001:245-246), in a sequence; <<>> for a
\* rule that has no append
AppendOf(r, refs, map) ==
    IF HasAppend(r) THEN <<referenceLinkAppend(refs, map).text>>
    ELSE IF r.replacement = "appending" THEN <<AppendText(r)>>
    ELSE <<>>

\* new Turnish() (part_001:114-117)
InitAppend ==
    /\ options = defaultOptions
    /\ array = defaultRules
    /\ _keep = <<>>
    /\ _remove = <<>>
    /\ node = NoNode
    /\ outcome = "none"
    /\ rule = NoRule
    /\ postIndex = 0
    /\ postOutput = <<>>
    /\ appendLog = <<>>

\* addRule (part_001:165-168, rules.ts:60-62) with a rule that has no append
addPlain ==
    /\ postIndex = 0
    /\ add
    /\ postOutput' = <<>>
    /\ appendLog' = <<>>
    /\ UNCHANGED postIndex

\* addRule with a rule that defines append
addAppending ==
    /\ postIndex = 0
    /\ Calls < MaxCalls
    /\ array' = Unshift(array,
                   Rule("added", Len(array) - Len(defaultRules) + 1,
                        StringFilter("p"), "appending"))
    /\ node' = NoNode /\ outcome' = "none" /\ rule' = NoRule
    /\ postOutput' = <<>>
    /\ appendLog' = <<>>
    /\ UNCHANGED <<options, _keep, _remove, postIndex>>

\* render (part_001:135-136): process has returned "o" for a document
\* without links, and postProcess is entered
enterPostProcess ==
    /\ postIndex = 0
    /\ postIndex' = 1
    /\ postOutput' = <<"o">>
    /\ appendLog' = <<>>
    /\ UNCHANGED rulesVars

\* one pass of the loop of postProcess (part_001:244-248)
appendStep ==
    /\ postIndex \in 1..Len(array)
    /\ LET r == array[postIndex]
           text == AppendOf(r, references, urlReferenceIdMap)
       IN  /\ postOutput' = IF text # <<>> THEN join(postOutput, text[1])
                            ELSE postOutput
           /\ appendLog' = IF text # <<>> THEN Append(appendLog, r) ELSE appendLog
    /\ postIndex' = postIndex + 1
    /\ UNCHANGED rulesVars

\* the return of postProcess (part_001:249-251)
returnOutput ==
    /\ postIndex = Len(array) + 1
    /\ postOutput' = TrimOutput(postOutput)
    /\ postIndex' = 0
    /\ UNCHANGED <<rulesVars, appendLog>>

InitSpecAppend ==
    /\ InitAppend
    /\ IdleUnsupported /\ IdleJoin /\ IdleProcess /\ IdleClassifier
    /\ IdleFence /\ IdleCode /\ IdleRender /\ IdleDocument /\ IdleEscape
    /\ IdleWalk /\ IdleFields /\ IdleLists
    /\ IdleTree
    /\ IdleTrim
    /\ IdleFlanking

notAppendVars ==
    <<unsupportedVars, joinVars, processVars, classifierVars,
      fenceVars, codeVars, renderVars, documentVars, escapeVars, walkVars,
      fieldVars, listsVars,
      treeVars,
      trimVars,
      flankingVars>>

NextAppend ==
    \/ addPlain /\ UNCHANGED notAppendVars
    \/ addAppending /\ UNCHANGED notAppendVars
    \/ enterPostProcess /\ UNCHANGED notAppendVars
    \/ appendStep /\ UNCHANGED notAppendVars
    \/ returnOutput /\ UNCHANGED notAppendVars

SpecAppend == InitSpecAppend /\ [][NextAppend]_vars

----------------------------------------------------------------------------
(* Properties of the order of the append hooks *)

\* postProcess has returned for the rule table as it is
PostProcessed == postIndex = 0 /\ appendLog # <<>>

\* the rule has an append
DefinesAppend(r) == AppendOf(r, references, urlReferenceIdMap) # <<>>

\* the places of the log that hold the rule
CallsOf(r) == {n \in 1..Len(appendLog) : appendLog[n] = r}

\* the first place of a text in the output, 0 when it is not there
PlaceOf(text) ==
    LET places == {n \in 1..(Len(postOutput) - Len(text) + 1) :
                      SubSeq(postOutput, n, n + Len(text) - 1) = text}
    IN  IF places = {} THEN 0 ELSE CHOOSE n \in places : \A m \in places : n <= m

\* the added rules of the table that define append
Appending == {array[i] : i \in {j \in 1..Len(array) : array[j].replacement = "appending"}}

\* C23 as stated: the append of every rule of the table runs once per
\* render, in registration order: the text of a rule registered earlier is
\* joined to the output before the text of a rule registered later.
C23_RegistrationOrder ==
    PostProcessed =>
        /\ \A i \in 1..Len(array) :
              DefinesAppend(array[i]) => Cardinality(CallsOf(array[i])) = 1
        /\ \A r1, r2 \in Appending :
              r1.serial < r2.serial =>
                  /\ PlaceOf(AppendText(r1)) > 0
                  /\ PlaceOf(AppendText(r1)) < PlaceOf(AppendText(r2))

\* C23, amended: the append of every rule of the table runs once per render
\* that reaches postProcess, in the order of the table, in which a rule
\* added with addRule stands before the rules added earlier and before the
\* rules of the constructor: the text of a rule added later is joined to the
\* output before the text of a rule added earlier.
C23_TableOrder ==
    PostProcessed =>
        /\ \A i \in 1..Len(array) :
              DefinesAppend(array[i]) => Cardinality(CallsOf(array[i])) = 1
        /\ \A i, j \in 1..Len(array) :
              (i < j /\ DefinesAppend(array[i]) /\ DefinesAppend(array[j]))
                  => \A m \in CallsOf(array[i]), n \in CallsOf(array[j]) : m < n
        /\ \A r1, r2 \in Appending :
              r1.serial < r2.serial =>
                  /\ PlaceOf(AppendText(r2)) > 0
                  /\ PlaceOf(AppendText(r2)) < PlaceOf(AppendText(r1))

\* two rules with an append were added, and the render returned the text of
\* the second before the text of the first
C23_Witness ==
    /\ PostProcessed
    /\ Cardinality(Appending) = 2
    /\ postOutput = <<"o", "r", "2", "r", "1">>

----------------------------------------------------------------------------
(* render of a document of element trees: replacementForNode on elements
   that hold links and text, with remove filters in the rule table *)

\* a text node, and an element with its href and title attributes (<<>>
\* when absent) and its child nodes
TextNode(value) ==
    [nodeType |-> 3, nodeName |-> "#text", nodeValue |-> value,
     href |-> <<>>, title |-> <<>>, childNodes |-> <<>>]

ElementNode(name, href, title, children) ==
    [nodeType |-> 1, nodeName |-> name, nodeValue |-> <<>>,
     href |-> href, title |-> title, childNodes |-> children]

\* The children of the root: paragraphs that hold a link, a DEL around a
\* link, a DEL with spaces at its edges between two texts, and a DEL
TreeElements ==
    { ElementNode("P", <<>>, <<>>,
         <<ElementNode("A", <<"a">>, <<>>, <<TextNode(<<"x">>)>>)>>),
      ElementNode("P", <<>>, <<>>,
         <<ElementNode("A", <<"b">>, <<>>, <<TextNode(<<"y">>)>>)>>),
      ElementNode("P", <<>>, <<>>,
         <<ElementNode("DEL", <<>>, <<>>,
              <<ElementNode("A", <<"c">>, <<>>, <<TextNode(<<"z">>)>>)>>)>>),
      ElementNode("P", <<>>, <<>>,
         <<TextNode(<<"d">>),
           ElementNode("DEL", <<>>, <<>>, <<TextNode(<<" ", "e", " ">>)>>),
           TextNode(<<"f">>)>>),
      ElementNode("P", <<>>, <<>>,
         <<ElementNode("DEL", <<>>, <<>>, <<TextNode(<<"g">>)>>)>>) }

\* Node.textContent
RECURSIVE TreeText(_)
RECURSIVE TreeTextFrom(_, _)
TreeTextFrom(children, i) ==
    IF i > Len(children) THEN <<>>
    ELSE TreeText(children[i]) \o TreeTextFrom(children, i + 1)

TreeText(n) ==
    IF n.nodeType = 3 THEN n.nodeValue ELSE TreeTextFrom(n.childNodes, 1)

\* children[i] as the sibling isFlankedByWhitespace reads, null beyond the ends
SiblingAt(children, i) ==
    IF i \in 1..Len(children)
    THEN [nodeType |-> children[i].nodeType, nodeName |-> children[i].nodeName,
          nodeValue |-> children[i].nodeValue,
          textContent |-> TreeText(children[i])]
    ELSE NoSibling

\* the element children[i] as Rules.forNode reads it; none of these elements
\* is void or meaningful when blank
TreeElem(children, parentName, i) ==
    LET el == children[i]
    IN  Elem(el.nodeName,
             (IF el.href # <<>> THEN {"href"} ELSE {})
                \cup (IF el.title # <<>> THEN {"title"} ELSE {}),
             parentName,
             IF el.childNodes = <<>> THEN NoChild
             ELSE [nodeName |-> el.childNodes[1].nodeName, attributes |-> {}],
             Len(children) > 1,
             IsWhitespaceOnly(TreeText(el)))

\* what process has made so far: the output, the accumulator of the
\* referenceLink rule, and whether forNode threw
Processed(out, refs, map, threw) ==
    [output |-> out, references |-> refs, urlReferenceIdMap |-> map,
     threw |-> threw]

\* rule.replacement(content, node, this.options) (part_001:270) for the
\* rules these elements resolve to
TreeReplacement(r, cont, el, opts, refs, map) ==
    IF r.replacement = "referenceLink"
    THEN referenceLinkReplacement(Link(el.href, el.title, cont), opts, refs, map)
    ELSE [replacement |->
             CASE r.replacement = "paragraph" -> paragraphReplacement(cont)
               [] r.replacement = "empty" -> <<>>
               [] r.replacement = "blankReplacement" -> blankReplacement(el)
               [] OTHER -> defaultReplacement(cont, el),
          references |-> refs, urlReferenceIdMap |-> map]

\* Turnish.process (part_001:215-234) from child i on, with
\* Turnish.replacementForNode (part_001:262-274) for the elements: forNode
\* first, then process of the element's children, then the replacement
RECURSIVE processTree(_, _, _, _, _, _)
processTree(children, parentName, i, done, rules, opts) ==
    IF i > Len(children) \/ done.threw THEN done
    ELSE IF children[i].nodeType = 3
    THEN processTree(children, parentName, i + 1,
                     [done EXCEPT !.output = join(@, escape(children[i].nodeValue))],
                     rules, opts)
    ELSE LET el == children[i]
             found == ForNode(rules.array, rules.keep, rules.remove,
                              TreeElem(children, parentName, i), opts)
             inner == processTree(el.childNodes, el.nodeName, 1,
                                  [done EXCEPT !.output = <<>>], rules, opts)
             whitespace ==
                flankingWhitespace(
                    [isBlock |-> isBlock(el), isCode |-> FALSE,
                     textContent |-> TreeText(el),
                     previousSibling |-> SiblingAt(children, i - 1),
                     nextSibling |-> SiblingAt(children, i + 1)], opts)
             cont == IF whitespace.leading # <<>> \/ whitespace.trailing # <<>>
                     THEN Trim(inner.output) ELSE inner.output
             r == TreeReplacement(found.rule, cont, el, opts,
                                  inner.references, inner.urlReferenceIdMap)
         IN  IF found.outcome = "threw" THEN [done EXCEPT !.threw = TRUE]
             ELSE IF inner.threw THEN [inner EXCEPT !.output = done.output]
             ELSE processTree(children, parentName, i + 1,
                              Processed(join(done.output,
                                             whitespace.leading \o r.replacement
                                                \o whitespace.trailing),
                                        r.references, r.urlReferenceIdMap, FALSE),
                              rules, opts)

\* new Turnish({linkStyle: 'referenced', ...}) (part_001:114-117)
InitTree ==
    /\ InitRender
    /\ treeState = "idle"
    /\ treeNodes = <<>>
    /\ treeOutput = <<>>

\* remove(filter) (rules.ts:71-78) between two renders
removeFilter ==
    /\ treeState # "running"
    /\ remove
    /\ treeState' = "idle"
    /\ treeNodes' = <<>>
    /\ treeOutput' = <<>>
    /\ UNCHANGED <<references, urlReferenceIdMap, frames, rendered, calls, converted>>

\* render (part_001:126-135) of a document, up to the call of process
renderTree ==
    /\ treeState # "running"
    /\ calls < MaxRenders
    /\ calls' = calls + 1
    /\ treeState' = "running"
    /\ treeNodes' = <<>>
    /\ treeOutput' = <<>>
    /\ UNCHANGED <<rulesVars, references, urlReferenceIdMap, frames, rendered,
                   converted>>

\* one step of the reduce of process over the children of the root
\* (part_001:216-233); a TypeError of forNode ends the render
processElement ==
    /\ treeState = "running"
    /\ Len(treeNodes) < MaxElements
    /\ \E el \in TreeElements :
         LET children == Append(treeNodes, el)
             done == processTree(children, "BODY", Len(children),
                                 Processed(treeOutput, references,
                                           urlReferenceIdMap, FALSE),
                                 [array |-> array, keep |-> _keep,
                                  remove |-> _remove],
                                 options)
         IN  /\ treeNodes' = children
             /\ treeOutput' = done.output
             /\ references' = done.references
             /\ urlReferenceIdMap' = done.urlReferenceIdMap
             /\ treeState' = IF done.threw THEN "threw" ELSE "running"
    /\ UNCHANGED <<rulesVars, frames, rendered, calls, converted>>

\* process has returned: postProcess (part_001:243-252) ends the render
postProcessTree ==
    /\ treeState = "running"
    /\ treeNodes # <<>>
    /\ LET p == PostProcessFrom(array, 1, treeOutput, references, urlReferenceIdMap)
       IN  /\ treeOutput' = TrimOutput(p.output)
           /\ references' = p.references
           /\ urlReferenceIdMap' = p.urlReferenceIdMap
    /\ treeState' = "returned"
    /\ UNCHANGED <<rulesVars, treeNodes, frames, rendered, calls, converted>>

InitSpecTree ==
    /\ InitTree
    /\ IdleUnsupported /\ IdleJoin /\ IdleProcess /\ IdleClassifier
    /\ IdleFence /\ IdleCode /\ IdleDocument /\ IdleEscape
    /\ IdleWalk /\ IdleFields /\ IdleLists /\ IdleAppend
    /\ IdleTrim
    /\ IdleFlanking

notTreeVars ==
    <<unsupportedVars, joinVars, processVars, classifierVars,
      fenceVars, codeVars, documentVars, escapeVars, walkVars,
      fieldVars, listsVars, appendVars,
      trimVars,
      flankingVars>>

NextTree ==
    \/ removeFilter /\ UNCHANGED notTreeVars
    \/ renderTree /\ UNCHANGED notTreeVars
    \/ processElement /\ UNCHANGED notTreeVars
    \/ postProcessTree /\ UNCHANGED notTreeVars

SpecTree == InitSpecTree /\ [][NextTree]_vars

----------------------------------------------------------------------------
(* Properties of removed elements *)

\* children[i] is an element that resolves to a remove rule
ResolvesToRemove(children, parentName, i) ==
    /\ children[i].nodeType = 1
    /\ LET found == ForNode(array, _keep, _remove,
                            TreeElem(children, parentName, i), options)
       IN  found.outcome = "returned" /\ found.rule.origin = "remove"

\* the child nodes from child i on, without the elements that resolve to a
\* remove rule, at every depth
RECURSIVE WithoutRemoved(_, _, _)
WithoutRemoved(children, parentName, i) ==
    IF i > Len(children) THEN <<>>
    ELSE IF ResolvesToRemove(children, parentName, i)
    THEN WithoutRemoved(children, parentName, i + 1)
    ELSE <<[children[i] EXCEPT
               !.childNodes = WithoutRemoved(@, children[i].nodeName, 1)]>>
            \o WithoutRemoved(children, parentName, i + 1)

\* some element of the document resolves to a remove rule
RECURSIVE HoldsRemoved(_, _, _)
HoldsRemoved(children, parentName, i) ==
    /\ i <= Len(children)
    /\ \/ ResolvesToRemove(children, parentName, i)
       \/ HoldsRemoved(children[i].childNodes, children[i].nodeName, 1)
       \/ HoldsRemoved(children, parentName, i + 1)

\* what render returns for the children of a root on an instance with these
\* rules and options whose accumulator is empty
FreshOutput(children) ==
    LET done == processTree(children, "BODY", 1,
                            Processed(<<>>, <<>>, <<>>, FALSE),
                            [array |-> array, keep |-> _keep, remove |-> _remove],
                            options)
    IN  TrimOutput(PostProcessFrom(array, 1, done.output, done.references,
                                   done.urlReferenceIdMap).output)

\* C24: an element that resolves to a remove rule adds no character to the
\* output of the render: the first render of an instance returns for a
\* document what it returns for the document without these elements and
\* their contents.
C24_RemovedAddsNothing ==
    (treeState = "returned" /\ calls = 1)
        => treeOutput = FreshOutput(WithoutRemoved(treeNodes, "BODY", 1))

----------------------------------------------------------------------------
(* Properties of a render that fails in the tree walk *)

\* C29: a render that fails in the tree walk leaves no state behind: when
\* it has thrown the accumulator is empty, and every render that returns
\* afterwards returns what a fresh instance returns for its document.
C29_FailedRenderLeavesNothing ==
    /\ treeState = "threw" => (references = <<>> /\ urlReferenceIdMap = <<>>)
    /\ treeState = "returned" => treeOutput = FreshOutput(treeNodes)

----------------------------------------------------------------------------
(* postProcess applied to one output of process *)

\* the characters of an output of process, at most
MaxOutputLen == 3

OutputAlphabet == {" ", TAB, CR, NL, "a"}

\* new Turnish() (part_001:114-117), and an output of process of a document
\* without links
InitTrim ==
    /\ options = defaultOptions
    /\ array = defaultRules
    /\ _keep = <<>>
    /\ _remove = <<>>
    /\ node = NoNode
    /\ outcome = "none"
    /\ rule = NoRule
    /\ processed \in UNION {[1..n -> OutputAlphabet] : n \in 0..MaxOutputLen}
    /\ final = <<>>

\* postProcess(output) (part_001:243-252)
postProcessOutput ==
    /\ final = <<>>
    /\ final' = <<TrimOutput(PostProcessFrom(array, 1, processed, <<>>, <<>>).output)>>
    /\ UNCHANGED <<rulesVars, processed>>

InitSpecTrim ==
    /\ InitTrim
    /\ IdleUnsupported /\ IdleJoin /\ IdleProcess /\ IdleClassifier
    /\ IdleFence /\ IdleCode /\ IdleRender /\ IdleDocument /\ IdleEscape
    /\ IdleWalk /\ IdleFields /\ IdleLists /\ IdleAppend /\ IdleTree
    /\ IdleFlanking

notTrimVars ==
    <<unsupportedVars, joinVars, processVars, classifierVars,
      fenceVars, codeVars, renderVars, documentVars, escapeVars, walkVars,
      fieldVars, listsVars, appendVars, treeVars,
      flankingVars>>

NextTrim == postProcessOutput /\ UNCHANGED notTrimVars

SpecTrim == InitSpecTrim /\ [][NextTrim]_vars

----------------------------------------------------------------------------
(* Properties of the ends of the final output *)

AfterLeadingBreaks ==
    SubSeq(processed, LeadingRun(processed, {TAB, CR, NL}) + 1, Len(processed))

----------------------------------------------------------------------------
(* Properties of the choice of the inline code delimiter *)

\* C26: the delimiter is the shortest run of backticks, of length 1 or
\* more, whose length is the length of no maximal backtick run of the
\* content; so it equals no backtick run of the content.
C26_ShortestUnusedLength ==
    inlineCode # <<>> =>
        \E n \in 1..(1 + LongestRun(content)) :
            /\ DelimitedBy(n)
            /\ n \notin RunLengths(content)
            /\ \A k \in 1..(n - 1) : k \in RunLengths(content)

\* content whose runs have one and three backticks, delimited by two
C26_Witness ==
    /\ inlineCode # <<>>
    /\ RunLengths(content) = {1, 3}
    /\ DelimitedBy(2)

----------------------------------------------------------------------------
(* flankingWhitespace applied to one node *)

\* the characters of the text of the node, at most
MaxTextLen == 3

\* a sibling as isFlankedByWhitespace reads it
Sibling(type, name, text) ==
    [nodeType |-> type, nodeName |-> name,
     nodeValue |-> IF type = 1 THEN <<>> ELSE text,
     textContent |-> text]

\* no sibling, a text, a comment, an inline element, a CODE element and a
\* block-level element, with and without a space at the two ends
Siblings ==
    {NoSibling}
    \cup {Sibling(k[1], k[2], t) :
            k \in {<<3, "#text">>, <<8, "#comment">>, <<1, "SPAN">>,
                   <<1, "CODE">>, <<1, "P">>},
            t \in {<<"a">>, <<" ", "a", " ">>}}

\* a node as flankingWhitespace reads it: an inline, a code or a block-level
\* element with text of letters, spaces and no-break spaces
InitFlanking ==
    /\ options \in {[defaultOptions EXCEPT !.preformattedCode = b] : b \in BOOLEAN}
    /\ \E name \in {"SPAN", "CODE", "P"}, parentIsCode \in BOOLEAN,
          text \in UNION {[1..n -> {" ", NBSP, "a"}] : n \in 0..MaxTextLen},
          previous \in Siblings, next \in Siblings :
          flankNode = <<[isBlock |-> isBlock([nodeName |-> name]),
                         isCode |-> name = "CODE" \/ parentIsCode,
                         textContent |-> text,
                         previousSibling |-> previous,
                         nextSibling |-> next]>>
    /\ flanking = <<>>

\* extended.flankingWhitespace = flankingWhitespace(extended, options)
\* (part_000:31)
flank ==
    /\ flanking = <<>>
    /\ flanking' = <<flankingWhitespace(flankNode[1], options)>>
    /\ UNCHANGED <<options, flankNode>>

InitSpecFlanking ==
    /\ InitFlanking
    /\ array = <<>> /\ _keep = <<>> /\ _remove = <<>>
    /\ node = NoNode /\ outcome = "none" /\ rule = NoRule
    /\ IdleUnsupported /\ IdleJoin /\ IdleProcess /\ IdleClassifier
    /\ IdleFence /\ IdleCode /\ IdleRender /\ IdleDocument /\ IdleEscape
    /\ IdleWalk /\ IdleFields /\ IdleLists /\ IdleAppend /\ IdleTree
    /\ IdleTrim

notFlankingVars ==
    <<array, _keep, _remove, node, outcome, rule,
      unsupportedVars, joinVars, processVars, classifierVars,
      fenceVars, codeVars, renderVars, documentVars, escapeVars, walkVars,
      fieldVars, listsVars, appendVars, treeVars, trimVars>>

NextFlanking == flank /\ UNCHANGED notFlankingVars

SpecFlanking == InitSpecFlanking /\ [][NextFlanking]_vars

----------------------------------------------------------------------------
(* Properties of the flanking whitespace *)

\* the sibling flanks a node on the side where the end of its text is: it
\* is a text node, or an element that is not block-level and not a CODE
\* under preformattedCode, and its text has a space at that end
Flanks(sibling, side) ==
    LET text == IF sibling.nodeType = 3 THEN sibling.nodeValue
                ELSE sibling.textContent
    IN  /\ sibling # NoSibling
        /\ \/ sibling.nodeType = 3
           \/ /\ sibling.nodeType = 1
              /\ sibling.nodeName \notin blockElements
              /\ ~(options.preformattedCode /\ sibling.nodeName = "CODE")
        /\ text # <<>>
        /\ IF side = "left" THEN text[Len(text)] = " " ELSE text[1] = " "

\* what the claim gives for the leading side
ExpectedLeading(n) ==
    LET text == n.textContent
        run == LeadingRun(text, Whitespace)
        ascii == LeadingRun(text, {" ", TAB, CR, NL})
    IN  IF ascii > 0 /\ Flanks(n.previousSibling, "left")
        THEN SubSeq(text, ascii + 1, run)
        ELSE SubSeq(text, 1, run)

\* what the claim gives for the trailing side
ExpectedTrailing(n) ==
    LET text == n.textContent
        run == TrailingRun(text, Whitespace)
        ascii == TrailingRun(text, {" ", TAB, CR, NL})
    IN  IF ascii > 0 /\ Flanks(n.nextSibling, "right")
        THEN SubSeq(text, Len(text) - run + 1, Len(text) - ascii)
        ELSE SubSeq(text, Len(text) - run + 1, Len(text))

\* the node is block-level, or code under preformattedCode
WithoutFlanking(n) == n.isBlock \/ (options.preformattedCode /\ n.isCode)

\* C27 as stated: for a block-level node, or a code node under
\* preformattedCode, both sides are empty; for any other node the leading
\* side is the leading whitespace run of its text, without its ASCII start
\* when the node is flanked on the left, and the trailing side is the
\* trailing whitespace run, without its ASCII end when the node is flanked
\* on the right.
C27_SymmetricSides ==
    flanking # <<>> =>
        LET n == flankNode[1]
        IN  IF WithoutFlanking(n)
            THEN flanking[1] = [leading |-> <<>>, trailing |-> <<>>]
            ELSE flanking[1] = [leading |-> ExpectedLeading(n),
                                trailing |-> ExpectedTrailing(n)]

\* C27, amended: as stated, except that for a node whose text is
\* whitespace only the whole text is the leading run and the trailing side
\* is empty.
C27_WhitespaceOnlyIsLeading ==
    flanking # <<>> =>
        LET n == flankNode[1]
        IN  IF WithoutFlanking(n)
            THEN flanking[1] = [leading |-> <<>>, trailing |-> <<>>]
            ELSE flanking[1] =
                    [leading |-> ExpectedLeading(n),
                     trailing |-> IF IsWhitespaceOnly(n.textContent) THEN <<>>
                                  ELSE ExpectedTrailing(n)]

\* a node whose text begins with a space and a no-break space, after a text
\* that ends in a space: the no-break space alone is the leading side
C27_Witness ==
    /\ flanking # <<>>
    /\ ~WithoutFlanking(flankNode[1])
    /\ flankNode[1].textContent = <<" ", NBSP, "a">>
    /\ flankNode[1].previousSibling = Sibling(3, "#text", <<" ", "a", " ">>)
    /\ flanking[1].leading = <<NBSP>>

----------------------------------------------------------------------------
(* Properties of the markers and the definitions of one render *)

\* the ids or labels the definitions of an output define
DefinedKeys(out) ==
    LET lines == Split(out)
    IN  {lines[n][2] : n \in DefinitionLines(out)}

\* the ids of the markers of the full style: the first line of the output
\* holds the markers [c][n] of the links, in order
MarkerIds(out, links) ==
    {Split(out)[1][6 * k - 1] : k \in 1..Len(links)}

\* C28: under every style and either deduplication, each marker of a render
\* has a definition of its id (full style) or of its label (collapsed and
\* shortcut) among the definitions the render ends with, and in the full
\* style no id is defined twice.
C28_EveryMarkerDefined ==
    (EndedAlone /\ rendered[1].links # <<>>) =>
        LET out == rendered[1].output
            links == rendered[1].links
        IN  IF options.linkReferenceStyle = "full"
            THEN /\ MarkerIds(out, links) \subseteq DefinedKeys(out)
                 /\ Cardinality(DefinitionLines(out)) = Cardinality(DefinedKeys(out))
            ELSE {l[1] : l \in LabelsOf(links)} \subseteq DefinedKeys(out)

----------------------------------------------------------------------------
(* Turnish.escape on every short string of Markdown characters *)

\* the characters of the string handed to escape, at most
MaxEscapeLen == 3

\* the characters the substitutions of escapes look at, and a letter
EscapeAlphabet ==
    {BS, "*", "_", "-", "+", " ", "=", "#", BACKTICK, "~", "[", "]", "<", ">",
     "1", ".", NL, "a"}

InitCharacters ==
    /\ escapeArg \in UNION {[1..n -> EscapeAlphabet] : n \in 0..MaxEscapeLen}
    /\ escaped = <<>>

InitSpecCharacters ==
    /\ InitCharacters
    /\ IdleRules /\ IdleUnsupported /\ IdleJoin /\ IdleProcess /\ IdleClassifier
    /\ IdleFence /\ IdleCode /\ IdleRender /\ IdleDocument /\ IdleWalk
    /\ IdleFields
    /\ IdleLists
    /\ IdleAppend
    /\ IdleTree
    /\ IdleTrim
    /\ IdleFlanking

NextCharacters ==
    \/ callEscape /\ UNCHANGED notEscapeVars

SpecCharacters == InitSpecCharacters /\ [][NextCharacters]_vars

\* s without its escaping backslashes: a backslash that is not itself escaped
\* is deleted and the character after it is kept
RECURSIVE Unescape(_)
Unescape(s) ==
    IF s = <<>> THEN <<>>
    ELSE IF Head(s) = BS /\ Len(s) >= 2
         THEN <<s[2]>> \o Unescape(SubSeq(s, 3, Len(s)))
         ELSE <<Head(s)>> \o Unescape(Tail(s))

\* s without any of its backslashes
WithoutBackslashes(s) == SelectSeq(s, LAMBDA c : c # BS)

\* C30: escape only inserts backslashes, and deleting each escaping backslash
\* of escape(s) while keeping the character after it gives back s: what is
\* left of escape(s) without its backslashes is s without its own, and
\* Unescape(escape(s)) = s
C30_UnescapeGivesInput ==
    escaped # <<>> =>
        LET out == escaped[1]
        IN  /\ WithoutBackslashes(out) = WithoutBackslashes(escapeArg)
            /\ Unescape(out) = escapeArg

\* escape has run on a backslash before an asterisk: both are escaped, the
\* backslash by the first substitution and the asterisk by the second
C30_Witness ==
    /\ escapeArg = <<BS, "*">>
    /\ escaped = << <<BS, BS, BS, "*">> >>

====
